---- MODULE Spec2Model ----
(***************************************************************************)
(* Model of HardwareMonitor (src/src/index.ts): the timed-mode stdout      *)
(* framer, the timed session lifecycle and the one-shot getDataOnce call.  *)
(*                                                                         *)
(* Text is a sequence of lexical units.  The structural characters the    *)
(* code looks at ({ } " \ CR LF : ,) are one unit each; a run of letters   *)
(* ("Timestamp", "garbage") is one unit, so a chunk boundary never falls   *)
(* inside a run of letters.                                                *)
(*                                                                         *)
(* Listeners for 'data' and 'error' are registered and do not throw.      *)
(***************************************************************************)
EXTENDS Integers, Sequences, FiniteSets, TLC

LB == "{"
RB == "}"
QT == "\""
BS == "\\"
CR == "\r"
LF == "\n"

\* JavaScript String.prototype.trim() white space occurring in the model's text
TrimWs == {" ", CR, LF}
\* JSON insignificant white space
JsonWs == {" ", CR, LF}

Min(a, b) == IF a < b THEN a ELSE b

\* s.substring(k) with a 0-based k: drop the first k units
Substring(s, k) == SubSeq(s, k + 1, Len(s))

\* s.indexOf(c), 0-based, -1 when absent
IndexOf(s, c) ==
  IF \E i \in 1..Len(s) : s[i] = c
  THEN (CHOOSE i \in 1..Len(s) : s[i] = c /\ \A j \in 1..(i - 1) : s[j] # c) - 1
  ELSE -1

\* s.indexOf('\r\n'), 0-based, -1 when absent
IndexOfCRLF(s) ==
  IF \E i \in 1..(Len(s) - 1) : s[i] = CR /\ s[i + 1] = LF
  THEN (CHOOSE i \in 1..(Len(s) - 1) :
          /\ s[i] = CR /\ s[i + 1] = LF
          /\ \A j \in 1..(i - 1) : ~(s[j] = CR /\ s[j + 1] = LF)) - 1
  ELSE -1

StartsWithLB(s) == Len(s) > 0 /\ s[1] = LB

\* s.trim() === ''
TrimIsEmpty(s) == \A i \in 1..Len(s) : s[i] \in TrimWs

\* number of UTF-16 code units a lexical unit stands for (String.length)
UnitLength(u) == IF u = "longbanner" THEN 1025 ELSE 1

RECURSIVE StrLength(_)
StrLength(s) == IF s = <<>> THEN 0 ELSE UnitLength(Head(s)) + StrLength(Tail(s))

(***************************************************************************)
(* JSON.parse, for the JSON texts the model's streams can contain:         *)
(* objects, strings with backslash escapes, the number 1.., null.          *)
(***************************************************************************)
NoProps == [k \in {} |-> 0]
JUndefined == [type |-> "undefined", str |-> <<>>, props |-> NoProps]
JNull == [type |-> "null", str |-> <<>>, props |-> NoProps]
JNumber == [type |-> "number", str |-> <<>>, props |-> NoProps]
JEmptyArray == [type |-> "array", str |-> <<>>, props |-> NoProps]
JString(s) == [type |-> "string", str |-> s, props |-> NoProps]
JObject(p) == [type |-> "object", str |-> <<>>, props |-> p]
ParseFail == [ok |-> FALSE, next |-> 0, val |-> JUndefined]
ParseOk(n, v) == [ok |-> TRUE, next |-> n, val |-> v]

SetProp(p, k, v) == [x \in (DOMAIN p) \cup {k} |-> IF x = k THEN v ELSE p[x]]

RECURSIVE SkipWs(_, _)
SkipWs(s, i) == IF i <= Len(s) /\ s[i] \in JsonWs THEN SkipWs(s, i + 1) ELSE i

\* the characters after the opening quote of a string, up to its closing quote
RECURSIVE ParseStringBody(_, _, _)
ParseStringBody(s, i, acc) ==
  IF i > Len(s) THEN ParseFail
  ELSE IF s[i] = QT THEN ParseOk(i + 1, JString(acc))
  ELSE IF s[i] = BS
       THEN IF i + 1 <= Len(s) /\ s[i + 1] \in {QT, BS}
            THEN ParseStringBody(s, i + 2, Append(acc, s[i + 1]))
            ELSE ParseFail
  ELSE IF s[i] \in {CR, LF} THEN ParseFail
  ELSE ParseStringBody(s, i + 1, Append(acc, s[i]))

RECURSIVE SkipDigits(_, _)
SkipDigits(s, i) == IF i <= Len(s) /\ s[i] = "1" THEN SkipDigits(s, i + 1) ELSE i

RECURSIVE ParseValue(_, _)
RECURSIVE ParseMembers(_, _, _)

\* members of an object from position i (a key is expected), into props p
ParseMembers(s, i, p) ==
  IF i > Len(s) \/ s[i] # QT THEN ParseFail
  ELSE LET key == ParseStringBody(s, i + 1, <<>>) IN
    IF ~key.ok THEN ParseFail
    ELSE LET c == SkipWs(s, key.next) IN
      IF c > Len(s) \/ s[c] # ":" THEN ParseFail
      ELSE LET v == ParseValue(s, SkipWs(s, c + 1)) IN
        IF ~v.ok THEN ParseFail
        ELSE LET e == SkipWs(s, v.next)
                 q == SetProp(p, key.val.str, v.val) IN
          IF e > Len(s) THEN ParseFail
          ELSE IF s[e] = RB THEN ParseOk(e + 1, JObject(q))
          ELSE IF s[e] = "," THEN ParseMembers(s, SkipWs(s, e + 1), q)
          ELSE ParseFail

ParseValue(s, i) ==
  IF i > Len(s) THEN ParseFail
  ELSE IF s[i] = QT THEN ParseStringBody(s, i + 1, <<>>)
  ELSE IF s[i] = "1" THEN ParseOk(SkipDigits(s, i), JNumber)
  ELSE IF s[i] = "null" THEN ParseOk(i + 1, JNull)
  ELSE IF s[i] = LB
       THEN LET j == SkipWs(s, i + 1) IN
            IF j <= Len(s) /\ s[j] = RB THEN ParseOk(j + 1, JObject(NoProps))
            ELSE ParseMembers(s, j, NoProps)
  ELSE ParseFail

\* JSON.parse(text): ok = FALSE stands for the SyntaxError it throws
JSONParse(s) ==
  LET v == ParseValue(s, SkipWs(s, 1)) IN
  IF v.ok /\ SkipWs(s, v.next) = Len(s) + 1 THEN v ELSE ParseFail

\* property read parsedData[k] on a parsed value that is not null
GetProp(v, k) == IF v.type = "object" /\ k \in DOMAIN v.props THEN v.props[k] ELSE JUndefined

(***************************************************************************)
(* Values handed to the caller                                             *)
(***************************************************************************)
TimestampKey == <<"Timestamp">>
CategoryKeys == {<<"CPU">>, <<"GPU">>, <<"Memory">>, <<"Motherboard">>, <<"Storage">>, <<"Network">>}
JUptimeInfo == [type |-> "uptimeinfo", str |-> <<>>, props |-> NoProps]

\* the components argument: undefined, or a list of tags
NoComponents == [given |-> FALSE, tags |-> <<>>]
Components(t) == [given |-> TRUE, tags |-> t]

\* JavaScript truthiness of a model value (the left operand of ||)
Truthy(v) == ~(v.type \in {"undefined", "null"} \/ (v.type = "string" /\ v.str = <<>>))
OrElse(v, d) == IF Truthy(v) THEN v ELSE d

\* components?.filter(comp => comp !== 'uptime')
CliComponents(c) == SelectSeq(c.tags, LAMBDA t : t # "uptime")
NoCliComponentsRequested(c) == ~c.given \/ Len(CliComponents(c)) = 0

\* (variant: the test made on the list without 'uptime')
UptimeSelectedOnCliList(c) == NoCliComponentsRequested(c)
\* !requestedComponents || requestedComponents.length === 0 || requestedComponents.includes('uptime')
UptimeSelected(c) == ~c.given \/ Len(c.tags) = 0 \/ (\E i \in 1..Len(c.tags) : c.tags[i] = "uptime")

\* addUptimeDataIfNeeded: sets report.Uptime and report.ElapsedTime
AddUptimeDataIfNeeded(report, c) ==
  IF UptimeSelected(c)
  THEN JObject(SetProp(SetProp(report.props, <<"Uptime">>, JUptimeInfo), <<"ElapsedTime">>, JUptimeInfo))
  ELSE report

\* the finalReport of the timed handler for a parsedData with a string Timestamp
TimedFinalReport(parsedData, c) ==
  AddUptimeDataIfNeeded(
    IF NoCliComponentsRequested(c)
    THEN JObject([k \in {TimestampKey} \cup CategoryKeys |->
                    IF k = TimestampKey THEN GetProp(parsedData, TimestampKey)
                    ELSE OrElse(GetProp(parsedData, k), JEmptyArray)])
    ELSE parsedData, c)

\* an emitted event; proc, from and to locate the text it was framed from
DataEvent(report, p, from, to) ==
  [kind |-> "data", type |-> "none", report |-> report, stderrData |-> <<>>,
   proc |-> p, from |-> from, to |-> to]
ErrorEvent(type, stderrData, p, from, to) ==
  [kind |-> "error", type |-> type, report |-> JUndefined, stderrData |-> stderrData,
   proc |-> p, from |-> from, to |-> to]

(***************************************************************************)
(* The stdout 'data' handler of startTimed                                 *)
(***************************************************************************)
InitialMessageThreshold == 1024

\* (variant: the chunk replaces the buffer instead of being appended to it)
AppendChunkReplacing(buffer, chunk) == chunk
\* this.buffer += dataChunk.toString()
AppendChunk(buffer, chunk) == buffer \o chunk

\* the brace scan: i is the 1-based position of the unit looked at
RECURSIVE ScanBraces(_, _, _, _, _)
ScanBraces(buf, i, balance, inString, escapeNext) ==
  IF i > Len(buf) THEN [kind |-> "incomplete", jsonEndIndex |-> -1]
  ELSE IF escapeNext THEN ScanBraces(buf, i + 1, balance, inString, FALSE)
  ELSE IF buf[i] = BS THEN ScanBraces(buf, i + 1, balance, inString, TRUE)
  ELSE LET s == IF buf[i] = QT THEN ~inString ELSE inString IN
    IF s THEN ScanBraces(buf, i + 1, balance, s, FALSE)
    ELSE IF buf[i] = LB THEN ScanBraces(buf, i + 1, balance + 1, s, FALSE)
    ELSE IF buf[i] = RB
         THEN IF balance - 1 = 0 /\ i - 1 > 0 THEN [kind |-> "end", jsonEndIndex |-> i - 1]
              ELSE IF balance - 1 < 0 THEN [kind |-> "unbalanced", jsonEndIndex |-> -1]
              ELSE ScanBraces(buf, i + 1, balance - 1, s, FALSE)
    ELSE ScanBraces(buf, i + 1, balance, s, FALSE)

\* (variant: a scan that counts every brace, those inside strings too)
RECURSIVE ScanEveryBrace(_, _, _)
ScanEveryBrace(buf, i, balance) ==
  IF i > Len(buf) THEN [kind |-> "incomplete", jsonEndIndex |-> -1]
  ELSE IF buf[i] = LB THEN ScanEveryBrace(buf, i + 1, balance + 1)
  ELSE IF buf[i] = RB
       THEN IF balance - 1 = 0 /\ i - 1 > 0 THEN [kind |-> "end", jsonEndIndex |-> i - 1]
            ELSE IF balance - 1 < 0 THEN [kind |-> "unbalanced", jsonEndIndex |-> -1]
            ELSE ScanEveryBrace(buf, i + 1, balance - 1)
  ELSE ScanEveryBrace(buf, i + 1, balance)
JsonEndScanEveryBrace(buf) == ScanEveryBrace(buf, 1, 0)
\* `for (let i = 0; ...)` started with balance 0, outside a string
JsonEndScan(buf) == ScanBraces(buf, 1, 0, FALSE, FALSE)

\* jsonEndIndex + 1, plus a trailing \r\n or \n
ConsumedLength(buf, jsonEndIndex) ==
  LET n == jsonEndIndex + 1 IN
  IF Len(buf) > n /\ buf[n + 1] = CR /\ Len(buf) > n + 1 /\ buf[n + 2] = LF THEN n + 2
  ELSE IF Len(buf) > n /\ buf[n + 1] = LF THEN n + 1
  ELSE n

\* the noise skip: st with the chunk already appended
SkipInitialMessage(st) ==
  LET newlineIndex == IndexOfCRLF(st.buffer) IN
  IF newlineIndex # -1
  THEN IF ~StartsWithLB(SubSeq(st.buffer, 1, newlineIndex))
       THEN [st EXCEPT !.buffer = Substring(st.buffer, newlineIndex + 2),
                       !.dropped = st.dropped + newlineIndex + 2,
                       !.initialMessageSkipped = TRUE]
       ELSE [st EXCEPT !.initialMessageSkipped = TRUE]
  ELSE IF StrLength(st.buffer) > InitialMessageThreshold /\ IndexOf(st.buffer, LB) = -1
       THEN [st EXCEPT !.initialMessageSkipped = TRUE]
  ELSE st

\* the candidate reportString = buffer[0..jsonEndIndex]: parse, validate, emit, discard
TakeCandidate(st, jsonEndIndex, p, c) ==
  LET reportString == SubSeq(st.buffer, 1, jsonEndIndex + 1)
      consumedLength == ConsumedLength(st.buffer, jsonEndIndex)
      parsed == JSONParse(reportString)
      from == st.dropped + 1
      to == st.dropped + jsonEndIndex + 1
      ev == IF ~parsed.ok THEN ErrorEvent("json_parse_error", reportString, p, from, to)
            ELSE IF GetProp(parsed.val, TimestampKey).type = "string"
                 THEN DataEvent(TimedFinalReport(parsed.val, c), p, from, to)
            ELSE ErrorEvent("json_parse_error", reportString, p, from, to)
  IN [st EXCEPT !.events = Append(st.events, ev),
                !.buffer = Substring(st.buffer, consumedLength),
                !.dropped = st.dropped + consumedLength,
                !.stop = ~parsed.ok]

\* the resync at the top of the loop body: discard text before the next '{'
DiscardPreamble(st) ==
  LET nextJsonStartIndex == IndexOf(st.buffer, LB) IN
  IF StartsWithLB(st.buffer) THEN st
  ELSE IF nextJsonStartIndex # -1
       THEN [st EXCEPT !.buffer = Substring(st.buffer, nextJsonStartIndex),
                       !.dropped = st.dropped + nextJsonStartIndex]
  ELSE IF TrimIsEmpty(st.buffer)
       THEN [st EXCEPT !.buffer = <<>>, !.dropped = st.dropped + Len(st.buffer), !.stop = TRUE]
  ELSE [st EXCEPT !.stop = TRUE]

\* the brace scan's "too many closing" branch
UnbalancedReset(st, p) ==
  [st EXCEPT !.buffer = <<>>, !.dropped = st.dropped + Len(st.buffer),
             !.initialMessageSkipped = FALSE,
             !.events = Append(st.events, ErrorEvent("json_parse_error", <<>>, p, 0, 0)),
             !.stop = TRUE]

\* `while (this.buffer.length > 0)`; stop = TRUE after a break or a return
RECURSIVE Drain(_, _, _)
Drain(st, p, c) ==
  IF Len(st.buffer) = 0 THEN st
  ELSE
    LET s1 == DiscardPreamble(st) IN
    IF s1.stop \/ ~StartsWithLB(s1.buffer) THEN s1
    ELSE
      LET scan == JsonEndScan(s1.buffer) IN
      IF scan.kind = "unbalanced" THEN UnbalancedReset(s1, p)
      ELSE IF scan.kind = "end"
      THEN LET s2 == TakeCandidate(s1, scan.jsonEndIndex, p, c) IN
           IF s2.stop THEN s2 ELSE Drain(s2, p, c)
      ELSE s1

\* the whole handler, for process p started with components c
OnStdoutData(st0, chunk, p, c) ==
  LET st == [st0 EXCEPT !.buffer = AppendChunk(st0.buffer, chunk), !.stop = FALSE] IN
  IF ~st.initialMessageSkipped
  THEN LET s1 == SkipInitialMessage(st) IN
       IF s1.initialMessageSkipped THEN Drain(s1, p, c) ELSE s1
  ELSE Drain(st, p, c)

(***************************************************************************)
(* What the subprocesses print                                             *)
(***************************************************************************)
\* {"Timestamp":"x"}
PlainReport == <<LB, QT, "Timestamp", QT, ":", QT, "x", QT, RB>>
\* {"Timestamp":"}\"{"} : braces and an escaped quote inside a string value
BraceStringReport == <<LB, QT, "Timestamp", QT, ":", QT, RB, BS, QT, LB, QT, RB>>
\* {"Timestamp":"x","CPU":"c"} : a report with CPU data
CpuReport == <<LB, QT, "Timestamp", QT, ":", QT, "x", QT, ",", QT, "CPU", QT, ":", QT, "c", QT, RB>>
\* {"a":{}} : a nested object, no Timestamp
NoTimestampObject == <<LB, QT, "a", QT, ":", LB, RB, RB>>
\* {x} : balanced braces, not JSON
UnparseableObject == <<LB, "x", RB>>

Piece(name) ==
  CASE name = "report" -> PlainReport
    [] name = "bracereport" -> BraceStringReport
    [] name = "cpureport" -> CpuReport
    [] name = "nots" -> NoTimestampObject
    [] name = "bad" -> UnparseableObject
    [] name = "crlf" -> <<CR, LF>>
    [] name = "lf" -> <<LF>>
    [] name = "garbage" -> <<"garbage">>
    [] name = "rb" -> <<RB>>
    [] name = "longbanner" -> <<"longbanner">>
    [] name = "lb" -> <<LB>>
    [] name = "lbquote" -> <<LB, QT>>

AllPieces == {"report", "bracereport", "nots", "bad", "crlf", "lf", "garbage", "rb"}

MaxPieces == 3
MaxCalls == 2
MaxOnceCalls == 2
MaxStderr == 1

RECURSIVE Concat(_)
Concat(names) == IF names = <<>> THEN <<>> ELSE Piece(Head(names)) \o Concat(Tail(names))

PieceSeqs(S, n) == UNION {[1..k -> S] : k \in 0..n}

\* the streams of the timed lifecycle, written one piece per chunk
TimedStreams == { <<"report", "crlf">> }

RECURSIVE NextPieceLength(_, _)
NextPieceLength(names, delivered) ==
  IF names = <<>> THEN 0
  ELSE IF delivered < Len(Piece(Head(names))) THEN Len(Piece(Head(names))) - delivered
  ELSE NextPieceLength(Tail(names), delivered - Len(Piece(Head(names))))

ExitCodes == {"0", "1"}

(***************************************************************************)
(* State                                                                   *)
(***************************************************************************)
VARIABLES
  executablePath,          \* "" until checkRequirements has set it
  activeProcess,           \* 0 for null, else the index in procs of the ChildProcess
  buffer,                  \* this.buffer
  initialMessageSkipped,   \* this.initialMessageSkipped
  events,                  \* the 'data' and 'error' events emitted, in order
  dropped,                 \* how many units have left the front of buffer since startTimed
  procs,                   \* the timed subprocesses spawned, in order (chunks: 0, 1, 2 for more)
  once,                    \* the getDataOnce call in flight and its promise (settles counts
                           \* its resolve and reject calls, first names its first handled event)
  calls,                   \* how many startTimed and stopTimed calls were made
  cache,                   \* the directories of the CLI base directory
  prov,                    \* the provisioning (downloadAndExtractLatestCli) calls made so far
  pure                     \* a call of a pure helper: its arguments and its result

vars == <<executablePath, activeProcess, buffer, initialMessageSkipped, events, dropped, procs, once, calls,
         cache, prov, pure>>
timedVars == <<activeProcess, buffer, initialMessageSkipped, events, dropped, procs>>
toolVars == <<cache, prov, pure>>

NewProc(c, names) ==
  [components |-> c, pieces |-> names, text |-> Concat(names), delivered |-> 0, chunks |-> 0,
   status |-> "running", exitCode |-> "none", killed |-> FALSE, kills |-> 0, errored |-> FALSE,
   stderrs |-> 0]

Pending == [state |-> "pending", type |-> "none", value |-> JUndefined, stderrData |-> <<>>, rawError |-> "none"]
NoPromise == [Pending EXCEPT !.state = "none"]
Resolved(v) == [Pending EXCEPT !.state = "resolved", !.value = v]
Rejected(type, stderrData, rawError) ==
  [Pending EXCEPT !.state = "rejected", !.type = type, !.stderrData = stderrData, !.rawError = rawError]

\* the closure of a getDataOnce call made while another one is in flight
NoCall ==
  [components |-> NoComponents, text |-> <<>>, delivered |-> 0, output |-> <<>>,
   errorOutput |-> <<>>, processKilled |-> FALSE, timer |-> "none", kills |-> 0,
   proc |-> "none", outcome |-> NoPromise]

OnceIdle ==
  [calls |-> 0, components |-> NoComponents, text |-> <<>>, delivered |-> 0,
   output |-> <<>>, errorOutput |-> <<>>, processKilled |-> FALSE, timer |-> "none",
   kills |-> 0, proc |-> "none", errored |-> FALSE, stderrs |-> 0, outcome |-> NoPromise,
   settles |-> 0, first |-> "none", spawns |-> 0, other |-> NoCall]

\* no provisioning call and no helper call made, nothing cached
\* no directory / no manifest response yet
NoDir == [prefix |-> "", nums |-> <<>>]
NoFetch == [ok |-> FALSE, tag |-> NoDir, assets |-> "none", kind |-> "none", message |-> <<>>]
\* no asset name looked up
NoLookup == [os |-> "none", arch |-> "none"]
\* the last provisioning call (inputs, outcome) and what the calls so far did
NoProvision ==
  [calls |-> 0, fetch |-> NoFetch, outcome |-> "none", route |-> "none", path |-> NoDir,
   error |-> "none", probeError |-> FALSE, cleanupError |-> FALSE, before |-> {},
   downloads |-> 0, extractions |-> 0, removed |-> {}, temp |-> "none", broken |-> {},
   platform |-> "linux", arch |-> "x64", requested |-> FALSE, lookup |-> NoLookup]
NoPure == [fn |-> "none"]
ToolIdle ==
  /\ cache = {}
  /\ prov = NoProvision
  /\ pure = NoPure

Init ==
  /\ executablePath = ""
  /\ activeProcess = 0
  /\ buffer = <<>>
  /\ initialMessageSkipped = FALSE
  /\ events = <<>>
  /\ dropped = 0
  /\ procs = <<>>
  /\ once = OnceIdle
  /\ calls = 0
  /\ ToolIdle

(***************************************************************************)
(* checkRequirements, startTimed, stopTimed and the timed subprocess       *)
(***************************************************************************)
\* checkRequirements resolving: DownloadCli returned the executable's path
CheckRequirements ==
  /\ executablePath = ""
  /\ executablePath' = "cli"
  /\ UNCHANGED <<toolVars, timedVars, once, calls>>

AlreadyActiveError == ErrorEvent("untyped", <<>>, 0, 0, 0)
PathNotSetError == ErrorEvent("spawn_error", <<>>, 0, 0, 0)

\* (variant: startTimed without the activeProcess guard)
StartTimedUnguarded(c, names) ==
  /\ calls < MaxCalls
  /\ calls' = calls + 1
  /\ IF executablePath = ""
     THEN /\ events' = Append(events, PathNotSetError)
          /\ UNCHANGED <<toolVars, executablePath, activeProcess, buffer, initialMessageSkipped, dropped, procs, once>>
     ELSE /\ buffer' = <<>>
          /\ initialMessageSkipped' = FALSE
          /\ dropped' = 0
          /\ procs' = Append(procs, NewProc(c, names))
          /\ activeProcess' = Len(procs) + 1
          /\ UNCHANGED <<toolVars, executablePath, events, once>>
StartTimed(c, names) ==
  /\ calls < MaxCalls
  /\ calls' = calls + 1
  /\ IF activeProcess # 0
     THEN /\ events' = Append(events, AlreadyActiveError)
          /\ UNCHANGED <<toolVars, executablePath, activeProcess, buffer, initialMessageSkipped, dropped, procs, once>>
     ELSE IF executablePath = ""
     THEN /\ events' = Append(events, PathNotSetError)
          /\ UNCHANGED <<toolVars, executablePath, activeProcess, buffer, initialMessageSkipped, dropped, procs, once>>
     ELSE /\ buffer' = <<>>
          /\ initialMessageSkipped' = FALSE
          /\ dropped' = 0
          /\ procs' = Append(procs, NewProc(c, names))
          /\ activeProcess' = Len(procs) + 1
          /\ UNCHANGED <<toolVars, executablePath, events, once>>

\* stdout 'data' of subprocess p with the next k units of its output
StdoutData(p, k) ==
  /\ procs[p].status # "closed" /\ ~procs[p].errored
  /\ k >= 1 /\ procs[p].delivered + k <= Len(procs[p].text)
  /\ \E st \in {OnStdoutData([buffer |-> buffer, initialMessageSkipped |-> initialMessageSkipped,
                             events |-> events, dropped |-> dropped, stop |-> FALSE],
                            SubSeq(procs[p].text, procs[p].delivered + 1, procs[p].delivered + k),
                            p, procs[p].components)} :
        /\ buffer' = st.buffer
        /\ initialMessageSkipped' = st.initialMessageSkipped
        /\ events' = st.events
        /\ dropped' = st.dropped
  /\ procs' = [procs EXCEPT ![p].delivered = @ + k, ![p].chunks = Min(@ + 1, 2)]
  /\ UNCHANGED <<toolVars, executablePath, activeProcess, once, calls>>

\* stderr 'data' of subprocess p: data.toString().trim() is errorMessage
StderrData(p, data) ==
  /\ procs[p].status # "closed" /\ ~procs[p].errored
  /\ procs[p].stderrs < MaxStderr
  /\ events' = IF ~TrimIsEmpty(data)
               THEN Append(events, ErrorEvent("process_error", data, p, 0, 0))
               ELSE events
  /\ procs' = [procs EXCEPT ![p].stderrs = @ + 1]
  /\ UNCHANGED <<toolVars, executablePath, activeProcess, buffer, initialMessageSkipped, dropped, once, calls>>

\* 'error' of subprocess p: the executable could not be spawned, so there is no
\* output, and the 'close' that follows reports a non-zero code
ProcError(p) ==
  /\ procs[p].status = "running" /\ ~procs[p].errored
  /\ procs[p].delivered = 0 /\ procs[p].stderrs = 0 /\ ~procs[p].killed
  /\ events' = Append(events, ErrorEvent("spawn_error", <<>>, p, 0, 0))
  /\ activeProcess' = 0
  /\ procs' = [procs EXCEPT ![p].errored = TRUE, ![p].status = "exited", ![p].exitCode = "1"]
  /\ UNCHANGED <<toolVars, executablePath, buffer, initialMessageSkipped, dropped, once, calls>>

\* subprocess p ends (by itself or by a signal); its 'close' comes later
ProcExit(p, code) ==
  /\ procs[p].status = "running"
  /\ procs' = [procs EXCEPT ![p].status = "exited", ![p].exitCode = code]
  /\ UNCHANGED <<toolVars, executablePath, activeProcess, buffer, initialMessageSkipped, events, dropped, once, calls>>

\* 'close' of subprocess p
ProcClose(p) ==
  /\ procs[p].status = "exited"
  /\ events' = IF activeProcess # 0 /\ ~procs[activeProcess].killed /\ procs[p].exitCode # "0"
               THEN Append(events, ErrorEvent("process_error", <<>>, p, 0, 0))
               ELSE events
  /\ activeProcess' = 0
  /\ buffer' = <<>>
  /\ dropped' = dropped + Len(buffer)
  /\ initialMessageSkipped' = FALSE
  /\ procs' = [procs EXCEPT ![p].status = "closed"]
  /\ UNCHANGED <<toolVars, executablePath, once, calls>>

\* ChildProcess.kill(): the signal is delivered, and killed set, if the process still runs
Kill(proc) == [proc EXCEPT !.kills = @ + 1, !.killed = @ \/ proc.status = "running"]

StopTimed ==
  /\ calls < MaxCalls
  /\ calls' = calls + 1
  /\ IF activeProcess # 0
     THEN /\ procs' = [procs EXCEPT ![activeProcess] = Kill(@)]
          /\ UNCHANGED <<toolVars, executablePath, activeProcess, buffer, initialMessageSkipped, events, dropped, once>>
     ELSE UNCHANGED <<toolVars, executablePath, timedVars, once>>

ComponentChoices == {NoComponents, Components(<<"cpu">>)}

TimedNext ==
  \/ \E c \in {NoComponents}, names \in TimedStreams : StartTimed(c, names)
  \/ \E p \in 1..Len(procs) : StdoutData(p, NextPieceLength(procs[p].pieces, procs[p].delivered))
  \/ \E p \in 1..Len(procs), data \in {<<"failure">>, <<LF>>} : StderrData(p, data)
  \/ \E p \in 1..Len(procs) : ProcError(p)
  \/ \E p \in 1..Len(procs), code \in ExitCodes : ProcExit(p, code)
  \/ \E p \in 1..Len(procs) : ProcClose(p)
  \/ StopTimed

Next == CheckRequirements \/ TimedNext

Spec == Init /\ [][Next]_vars

(***************************************************************************)
(* The calls made on a monitor whose timed session is already running:     *)
(* the first session, or the one started after a subprocess failed to      *)
(* spawn ('error' handled, its 'close' still to come)                      *)
(***************************************************************************)
SpawnFailed(proc) == [proc EXCEPT !.errored = TRUE, !.status = "exited", !.exitCode = "1"]

\* the running subprocess has printed nothing so far
InitStop ==
  /\ executablePath = "cli"
  /\ buffer = <<>>
  /\ initialMessageSkipped = FALSE
  /\ dropped = 0
  /\ once = OnceIdle
  /\ calls = 0
  /\ ToolIdle
  /\ \/ /\ procs = <<NewProc(NoComponents, <<>>)>>
        /\ activeProcess = 1
        /\ events = <<>>
     \/ /\ procs = <<SpawnFailed(NewProc(NoComponents, <<>>)), NewProc(NoComponents, <<>>)>>
        /\ activeProcess = 2
        /\ events = <<ErrorEvent("spawn_error", <<>>, 1, 0, 0)>>

SpecStop == InitStop /\ [][TimedNext]_vars

(***************************************************************************)
(* One timed session fed an arbitrary stream in arbitrary chunks           *)
(***************************************************************************)
InitSession(streams) ==
  /\ executablePath = "cli"
  /\ activeProcess = 1
  /\ buffer = <<>>
  /\ initialMessageSkipped = FALSE
  /\ events = <<>>
  /\ dropped = 0
  /\ \E c \in ComponentChoices, names \in streams : procs = <<NewProc(c, names)>>
  /\ once = OnceIdle
  /\ calls = 0
  /\ ToolIdle

InitFramer == InitSession(PieceSeqs(AllPieces, MaxPieces))

NextFramer == \E k \in 1..Len(procs[1].text) : StdoutData(1, k)

SpecFramer == InitFramer /\ [][NextFramer]_vars

(***************************************************************************)
(* One timed session whose output has a stray '{' between two reports      *)
(***************************************************************************)
RecoveryStreams ==
  { <<"report", "crlf", "garbage", g, "garbage", "crlf", "report", "crlf", "report", "crlf">> :
      g \in {"lb", "lbquote"} }

InitRecovery == InitSession(RecoveryStreams)

SpecRecovery == InitRecovery /\ [][NextFramer]_vars

(***************************************************************************)
(* getDataOnce: one call in flight at a time                               *)
(***************************************************************************)
OnceOutputs == {PlainReport, NoTimestampObject, UnparseableObject, <<"null">>}
OnceComponentChoices == {NoComponents, Components(<<"cpu">>), Components(<<"cpu", "uptime">>)}

\* resolve and reject settle the promise only while it is pending
Settle(outcome, new) == IF outcome.state = "pending" THEN new ELSE outcome
FirstEvent(first, e) == IF first = "none" THEN e ELSE first

\* the try block of the 'close' handler: JSON.parse(output), finalReport, resolve;
\* a TypeError thrown in it (a property of null, a property set on a primitive)
\* reaches the same catch as a SyntaxError
OnceResult(output, c) ==
  LET parsed == JSONParse(output)
      v == parsed.val
  IN
  IF ~parsed.ok THEN Rejected("json_parse_error", output, "SyntaxError")
  ELSE IF NoCliComponentsRequested(c)
  THEN IF v.type = "null" THEN Rejected("json_parse_error", output, "TypeError")
       ELSE Resolved(AddUptimeDataIfNeeded(
              JObject([k \in {TimestampKey} \cup CategoryKeys |->
                         IF k = TimestampKey THEN OrElse(GetProp(v, TimestampKey), JString(<<"now">>))
                         ELSE OrElse(GetProp(v, k), JEmptyArray)]), c))
  ELSE IF UptimeSelected(c)
  THEN IF v.type \in {"object", "array"} THEN Resolved(AddUptimeDataIfNeeded(v, c))
       ELSE Rejected("json_parse_error", output, "TypeError")
  ELSE Resolved(v)

\* (variant: a call refused while a timed session is active)
GetDataOnceWhenIdle(c, text) ==
  /\ once.proc \in {"none", "closed"} /\ once.other.proc \in {"none", "closed"}
  /\ once.calls < MaxOnceCalls
  /\ once' = IF executablePath = "" \/ activeProcess # 0
             THEN [OnceIdle EXCEPT !.calls = once.calls + 1, !.spawns = once.spawns,
                                   !.components = c, !.settles = 1,
                                   !.outcome = Rejected("spawn_error", <<>>, "none")]
             ELSE [OnceIdle EXCEPT !.calls = once.calls + 1, !.spawns = once.spawns + 1,
                                   !.components = c, !.text = text, !.timer = "armed",
                                   !.proc = "running", !.outcome = Pending]
  /\ UNCHANGED <<toolVars, executablePath, timedVars, calls>>
GetDataOnce(c, text) ==
  /\ once.proc \in {"none", "closed"} /\ once.other.proc \in {"none", "closed"}
  /\ once.calls < MaxOnceCalls
  /\ once' = IF executablePath = ""
             THEN [OnceIdle EXCEPT !.calls = once.calls + 1, !.spawns = once.spawns,
                                   !.components = c, !.settles = 1,
                                   !.outcome = Rejected("spawn_error", <<>>, "none")]
             ELSE [OnceIdle EXCEPT !.calls = once.calls + 1, !.spawns = once.spawns + 1,
                                   !.components = c, !.text = text, !.timer = "armed",
                                   !.proc = "running", !.outcome = Pending]
  /\ UNCHANGED <<toolVars, executablePath, timedVars, calls>>

\* proc.stdout 'data'
OnceStdout(k) ==
  /\ once.proc = "running" /\ ~once.errored
  /\ k >= 1 /\ once.delivered + k <= Len(once.text)
  /\ once' = [once EXCEPT !.output = @ \o SubSeq(once.text, once.delivered + 1, once.delivered + k),
                          !.delivered = @ + k]
  /\ UNCHANGED <<toolVars, executablePath, timedVars, calls>>

\* proc.stderr 'data'
OnceStderr(data) ==
  /\ once.proc = "running" /\ ~once.errored
  /\ once.stderrs < MaxStderr
  /\ once' = [once EXCEPT !.errorOutput = @ \o data, !.stderrs = @ + 1]
  /\ UNCHANGED <<toolVars, executablePath, timedVars, calls>>

\* (variant: the timer callback without `processKilled = true`)
OnceTimeoutUnflagged ==
  /\ once.timer = "armed"
  /\ once' = [once EXCEPT !.kills = @ + 1,
                          !.timer = "fired",
                          !.outcome = Settle(@, Rejected("timeout_error", <<>>, "none")),
                          !.settles = @ + 1,
                          !.first = FirstEvent(@, "timeout")]
  /\ UNCHANGED <<toolVars, executablePath, timedVars, calls>>
\* the setTimeout callback
OnceTimeout ==
  /\ once.timer = "armed"
  /\ once' = [once EXCEPT !.processKilled = TRUE,
                          !.kills = @ + 1,
                          !.timer = "fired",
                          !.outcome = Settle(@, Rejected("timeout_error", <<>>, "none")),
                          !.settles = @ + 1,
                          !.first = FirstEvent(@, "timeout")]
  /\ UNCHANGED <<toolVars, executablePath, timedVars, calls>>

\* (variant: the 'error' handler without clearTimeout)
OnceErrorTimerKept ==
  /\ once.proc = "running" /\ ~once.errored
  /\ once' = IF once.processKilled
             THEN [once EXCEPT !.errored = TRUE]
             ELSE [once EXCEPT !.errored = TRUE,
                               !.outcome = Settle(@, Rejected("spawn_error", <<>>, "err")),
                               !.settles = @ + 1,
                               !.first = FirstEvent(@, "error")]
  /\ UNCHANGED <<toolVars, executablePath, timedVars, calls>>
\* proc 'error'
OnceError ==
  /\ once.proc = "running" /\ ~once.errored
  /\ once' = IF once.processKilled
             THEN [once EXCEPT !.errored = TRUE]
             ELSE [once EXCEPT !.errored = TRUE,
                               !.timer = "cleared",
                               !.outcome = Settle(@, Rejected("spawn_error", <<>>, "err")),
                               !.settles = @ + 1,
                               !.first = FirstEvent(@, "error")]
  /\ UNCHANGED <<toolVars, executablePath, timedVars, calls>>

\* (variant: the 'close' handler without the `code !== 0` branch)
OnceCloseCodeUnchecked(code) ==
  /\ once.proc = "running"
  /\ once.errored => code # "0"
  /\ once' = IF once.processKilled
             THEN [once EXCEPT !.proc = "closed"]
             ELSE [once EXCEPT !.proc = "closed",
                               !.timer = "cleared",
                               !.outcome = Settle(@, OnceResult(once.output, once.components)),
                               !.settles = @ + 1,
                               !.first = FirstEvent(@, IF code # "0" THEN "close_nonzero" ELSE "close_zero")]
  /\ UNCHANGED <<toolVars, executablePath, timedVars, calls>>
\* proc 'close' with exit code `code`
OnceClose(code) ==
  /\ once.proc = "running"
  /\ once.errored => code # "0"
  /\ once' = IF once.processKilled
             THEN [once EXCEPT !.proc = "closed"]
             ELSE [once EXCEPT !.proc = "closed",
                               !.timer = "cleared",
                               !.outcome = Settle(@, IF code # "0"
                                                     THEN Rejected("process_error", once.errorOutput, "none")
                                                     ELSE OnceResult(once.output, once.components)),
                               !.settles = @ + 1,
                               !.first = FirstEvent(@, IF code # "0" THEN "close_nonzero" ELSE "close_zero")]
  /\ UNCHANGED <<toolVars, executablePath, timedVars, calls>>

OnceNext ==
  \/ \E c \in OnceComponentChoices, text \in OnceOutputs : GetDataOnce(c, text)
  \/ \E k \in 1..Len(once.text) : OnceStdout(k)
  \/ OnceStderr(<<"failure">>)
  \/ OnceTimeout
  \/ OnceError
  \/ \E code \in ExitCodes : OnceClose(code)

NextOnce == CheckRequirements \/ OnceNext

SpecOnce == Init /\ [][NextOnce]_vars

(***************************************************************************)
(* getDataOnce called while another call is in flight and a timed session  *)
(* is running: the second call's closure is once.other                     *)
(***************************************************************************)
\* proc.stdout 'data' with the rest of the output
CallStdout(r) ==
  [r EXCEPT !.output = @ \o SubSeq(r.text, r.delivered + 1, Len(r.text)), !.delivered = Len(r.text)]
\* the setTimeout callback
CallTimeout(r) ==
  [r EXCEPT !.processKilled = TRUE, !.kills = @ + 1, !.timer = "fired",
            !.outcome = Settle(@, Rejected("timeout_error", <<>>, "none"))]
\* proc 'close'
CallClose(r, code) ==
  IF r.processKilled THEN [r EXCEPT !.proc = "closed"]
  ELSE [r EXCEPT !.proc = "closed", !.timer = "cleared",
                 !.outcome = Settle(@, IF code # "0"
                                       THEN Rejected("process_error", r.errorOutput, "none")
                                       ELSE OnceResult(r.output, r.components))]

OverlappingGetDataOnce(c, text) ==
  /\ once.proc = "running" /\ once.other.proc = "none"
  /\ once.calls < MaxOnceCalls
  /\ once' = IF executablePath = ""
             THEN [once EXCEPT !.calls = @ + 1,
                               !.other = [NoCall EXCEPT !.components = c,
                                                        !.outcome = Rejected("spawn_error", <<>>, "none")]]
             ELSE [once EXCEPT !.calls = @ + 1, !.spawns = @ + 1,
                               !.other = [NoCall EXCEPT !.components = c, !.text = text, !.timer = "armed",
                                                        !.proc = "running", !.outcome = Pending]]
  /\ UNCHANGED <<toolVars, executablePath, timedVars, calls>>

OverlappingStdout ==
  /\ once.other.proc = "running" /\ once.other.delivered < Len(once.other.text)
  /\ once' = [once EXCEPT !.other = CallStdout(@)]
  /\ UNCHANGED <<toolVars, executablePath, timedVars, calls>>

OverlappingTimeout ==
  /\ once.other.timer = "armed"
  /\ once' = [once EXCEPT !.other = CallTimeout(@)]
  /\ UNCHANGED <<toolVars, executablePath, timedVars, calls>>

OverlappingClose(code) ==
  /\ once.other.proc = "running"
  /\ once' = [once EXCEPT !.other = CallClose(@, code)]
  /\ UNCHANGED <<toolVars, executablePath, timedVars, calls>>

OverlapOutputs == {PlainReport, CpuReport}

InitOverlap == InitSession({<<"report", "crlf">>})

NextOverlap ==
  \/ StdoutData(1, NextPieceLength(procs[1].pieces, procs[1].delivered))
  \/ ProcExit(1, "0")
  \/ ProcClose(1)
  \/ \E c \in ComponentChoices, text \in OverlapOutputs : GetDataOnce(c, text)
  \/ OnceStdout(Len(once.text))
  \/ OnceTimeout
  \/ \E code \in ExitCodes : OnceClose(code)
  \/ \E c \in ComponentChoices, text \in OverlapOutputs : OverlappingGetDataOnce(c, text)
  \/ OverlappingStdout
  \/ OverlappingTimeout
  \/ \E code \in ExitCodes : OverlappingClose(code)

SpecOverlap == InitOverlap /\ [][NextOverlap]_vars

(***************************************************************************)
(* downloadAndExtractLatestCli (src/unnamed/part_003, the cli_downloader    *)
(* whose DownloadCli returns the executable's path)                        *)
(***************************************************************************)
\* Number.prototype.toString() of a non-negative integer, one unit per digit
DigitChar(d) == <<"0", "1", "2", "3", "4", "5", "6", "7", "8", "9">>[d + 1]
RECURSIVE NumberToString(_)
NumberToString(n) == IF n < 10 THEN <<DigitChar(n)>> ELSE Append(NumberToString(n \div 10), DigitChar(n % 10))

\* a directory name: a prefix followed by dot-separated numbers, e.g. v1.10.0
DirName(prefix, nums) == [prefix |-> prefix, nums |-> nums]
CliName == "LynxHardwareCLI"
V1_2_0 == DirName("v", <<1, 2, 0>>)
V1_9_0 == DirName("v", <<1, 9, 0>>)
V1_10_0 == DirName("v", <<1, 10, 0>>)
CliV1_0_0 == DirName("LynxHardwareCLI-v", <<1, 0, 0>>)
DirNames == {V1_2_0, V1_9_0, V1_10_0, CliV1_0_0}

\* dirent.name.startsWith(`${cliName}-`)
StartsWithCliNameDash(name) == name.prefix \in {"LynxHardwareCLI-", "LynxHardwareCLI-v"}

\* position of a prefix under the collation's base-letter order ('l' before 'v')
PrefixRank(prefix) == IF prefix \in {"LynxHardwareCLI-", "LynxHardwareCLI-v"} THEN 1 ELSE 2

\* (variant: digit runs compared as text, character by character)
RECURSIVE CompareDigitText(_, _)
CompareDigitText(x, y) ==
  IF x = <<>> /\ y = <<>> THEN 0
  ELSE IF x = <<>> THEN -1
  ELSE IF y = <<>> THEN 1
  ELSE IF Head(x) = Head(y) THEN CompareDigitText(Tail(x), Tail(y))
  ELSE IF (CHOOSE d \in 0..9 : DigitChar(d) = Head(x)) < (CHOOSE d \in 0..9 : DigitChar(d) = Head(y))
       THEN -1 ELSE 1
CompareNumberAsText(m, n) == CompareDigitText(NumberToString(m), NumberToString(n))
\* numeric: true : a run of digits is compared by its value
CompareNumber(m, n) == IF m < n THEN -1 ELSE IF m > n THEN 1 ELSE 0

RECURSIVE CompareNums(_, _)
CompareNums(x, y) ==
  IF x = <<>> /\ y = <<>> THEN 0
  ELSE IF x = <<>> THEN -1
  ELSE IF y = <<>> THEN 1
  ELSE IF CompareNumber(Head(x), Head(y)) # 0 THEN CompareNumber(Head(x), Head(y))
  ELSE CompareNums(Tail(x), Tail(y))

\* a.localeCompare(b, undefined, {numeric: true, sensitivity: 'base'})
LocaleCompare(a, b) ==
  IF PrefixRank(a.prefix) # PrefixRank(b.prefix)
  THEN (IF PrefixRank(a.prefix) < PrefixRank(b.prefix) THEN -1 ELSE 1)
  ELSE CompareNums(a.nums, b.nums)

\* versionDirs sorted with (a, b) => b.localeCompare(a, ...), then versionDirs[0]
LatestLocalVersion(dirs) == CHOOSE d \in dirs : \A e \in dirs : LocaleCompare(e, d) <= 0

\* what fetchJson settles with: a release, or an Error with a message (a sequence
\* of units; a unit "403" stands for those three characters wherever they occur)
Release(tag, assets) == [ok |-> TRUE, tag |-> tag, assets |-> assets, kind |-> "release", message |-> <<>>]
HttpFailure(status, reason) ==
  [ok |-> FALSE, tag |-> NoDir, assets |-> "none", kind |-> "http",
   message |-> <<"Failed to fetch JSON: ", status, " ", reason, " from ", "releaseUrl">>]
NetworkFailure(message) ==
  [ok |-> FALSE, tag |-> NoDir, assets |-> "none", kind |-> "network", message |-> message]
RateLimited == HttpFailure("403", "rate limit exceeded")
NotFound == HttpFailure("404", "Not Found")
Unreachable == NetworkFailure(<<"getaddrinfo ENOTFOUND api.github.com">>)
\* connect ETIMEDOUT 2606:50c0:8403::154:443
UnreachableAddress == NetworkFailure(<<"connect ETIMEDOUT 2606:50c0:8", "403", "::154:443">>)
\* a 200 response whose body JSON.parse rejects
MalformedBody ==
  [ok |-> FALSE, tag |-> NoDir, assets |-> "none", kind |-> "parse",
   message |-> <<"Unexpected token } in JSON at position ", "403">>]
FetchFailures == {RateLimited, NotFound, Unreachable, UnreachableAddress, MalformedBody}
\* assets: "none" (no assets), "other" (none for this platform), "match"
FetchResults == {Release(tag, a) : tag \in DirNames, a \in {"none", "other", "match"}} \cup FetchFailures

\* (variant: every failure message counts as a rate limit)
IncludesAnything(message) == message # <<>>
\* errorMessage.toLowerCase().includes('403')
Includes403(message) == \E i \in 1..Len(message) : message[i] = "403"

\* the directories cleanupOldVersions selects for removal
OldVersionDirs(dirs, currentVersion) ==
  {d \in dirs : StartsWithCliNameDash(d) /\ d # currentVersion}

\* the monitor as constructed, nothing called yet
MonitorIdle ==
  /\ executablePath = ""
  /\ activeProcess = 0
  /\ buffer = <<>>
  /\ initialMessageSkipped = FALSE
  /\ events = <<>>
  /\ dropped = 0
  /\ procs = <<>>
  /\ once = OnceIdle
  /\ calls = 0

\* os.platform() and os.arch() of the machine
Platforms == {"win32", "darwin", "linux", "freebsd"}
Archs == {"x64", "arm64", "ia32"}
\* platform === 'win32' ? 'win' : platform === 'darwin' ? 'osx' : 'linux'
OsIdentifier(platform) ==
  IF platform = "win32" THEN "win" ELSE IF platform = "darwin" THEN "osx" ELSE "linux"
\* arch === 'x64' ? 'x64' : 'arm64'
ArchIdentifier(arch) == IF arch = "x64" THEN "x64" ELSE "arm64"
\* the part of expectedAssetName that depends on the machine
AssetLookup(p) == [os |-> OsIdentifier(p.platform), arch |-> ArchIdentifier(p.arch)]

\* the outcome of one call: the directories left in baseDestinationDir and the
\* record of the call.  Inputs besides the manifest response: whether readdir /
\* access / rm of the temporary directory reject, how the download and the
\* extraction end, and which of the old version directories rm removed.
Failed(p, dirs, in, error) ==
  [cache |-> dirs,
   prov |-> [p EXCEPT !.calls = @ + 1, !.fetch = in.fetch, !.outcome = "failed", !.route = "none",
                      !.path = NoDir, !.error = error, !.probeError = FALSE, !.cleanupError = FALSE,
                      !.before = dirs, !.downloads = 0, !.extractions = 0, !.removed = {},
                      !.temp = "none", !.requested = TRUE, !.lookup = NoLookup]]
LocalFallback(p, dirs, in) ==
  IF ~in.readdirFails /\ dirs # {}
  THEN [Failed(p, dirs, in, "none") EXCEPT !.prov.outcome = "returned", !.prov.route = "fallback",
                                           !.prov.path = LatestLocalVersion(dirs)]
  ELSE Failed(p, dirs, in, "no_fallback")
\* (variant: cleanupOldVersions without its try/catch)
CleanupRejectsUncaught(dirs, currentVersion, removed) == removed # OldVersionDirs(dirs, currentVersion)
\* whether cleanupOldVersions rejects: its whole body is in a try whose catch only warns
CleanupRejects(dirs, currentVersion, removed) == FALSE
\* (variant: the temporary directory is removed on the success path only)
TempAfterSuccessOnly(in) ==
  IF in.download = "ok" /\ in.extract = "ok"
  THEN (IF in.tempRemoved THEN "removed" ELSE "rm_rejected") ELSE "left"
\* finally { await fsPromises.rm(tempDownloadDir, ...) }: runs on every way out of the try
TempAfter(in) == IF in.tempRemoved THEN "removed" ELSE "rm_rejected"
AlreadyExists(p, dirs, in) ==
  [cache |-> dirs \ in.removed,
   prov |-> [Failed(p, dirs, in, "none").prov EXCEPT
               !.outcome = IF CleanupRejects(dirs, in.fetch.tag, in.removed) THEN "failed" ELSE "returned",
               !.route = IF CleanupRejects(dirs, in.fetch.tag, in.removed) THEN "none" ELSE "exists",
               !.path = IF CleanupRejects(dirs, in.fetch.tag, in.removed) THEN NoDir ELSE in.fetch.tag,
               !.error = IF CleanupRejects(dirs, in.fetch.tag, in.removed) THEN "cleanup" ELSE "none",
               !.removed = in.removed,
               !.cleanupError = (in.removed # OldVersionDirs(dirs, in.fetch.tag)),
               !.broken = @ \ in.removed]]
\* (variant: cleanupOldVersions called before the archive is extracted)
DownloadAndExtractCleaningFirst(p, dirs, in) ==
  LET tag == in.fetch.tag
      made == in.download = "ok" /\ in.extract # "mkdir"
      extracted == in.download = "ok" /\ in.extract = "ok"
      present == IF made THEN dirs \cup {tag} ELSE dirs
      removed == IF in.download = "ok" THEN in.removed ELSE {}
      done == extracted /\ ~CleanupRejects(present, tag, removed)
      temp == TempAfter(in)
      base == Failed(p, dirs, in, "none").prov
  IN [cache |-> present \ removed,
      prov |-> [base EXCEPT
                  !.outcome = IF done /\ temp = "removed" THEN "returned" ELSE "failed",
                  !.route = IF done /\ temp = "removed" THEN "fresh" ELSE "none",
                  !.path = IF done /\ temp = "removed" THEN tag ELSE NoDir,
                  !.error = IF temp = "rm_rejected" THEN "temp_rm"
                            ELSE IF done THEN "none" ELSE "download_extract",
                  !.probeError = in.probeFails,
                  !.downloads = 1,
                  !.extractions = IF made THEN 1 ELSE 0,
                  !.removed = removed,
                  !.cleanupError = extracted /\ removed # OldVersionDirs(present, tag),
                  !.temp = temp,
                  !.lookup = AssetLookup(p),
                  !.broken = (IF extracted THEN @ \ {tag}
                              ELSE IF made THEN @ \cup {tag} ELSE @) \ removed]]
\* the download, the extraction, the cleanup and the removal of the temporary directory
DownloadAndExtract(p, dirs, in) ==
  LET tag == in.fetch.tag
      made == in.download = "ok" /\ in.extract # "mkdir"
      extracted == in.download = "ok" /\ in.extract = "ok"
      present == IF made THEN dirs \cup {tag} ELSE dirs
      removed == IF extracted THEN in.removed ELSE {}
      done == extracted /\ ~CleanupRejects(present, tag, removed)
      temp == TempAfter(in)
      base == Failed(p, dirs, in, "none").prov
  IN [cache |-> present \ removed,
      prov |-> [base EXCEPT
                  !.outcome = IF done /\ temp = "removed" THEN "returned" ELSE "failed",
                  !.route = IF done /\ temp = "removed" THEN "fresh" ELSE "none",
                  !.path = IF done /\ temp = "removed" THEN tag ELSE NoDir,
                  !.error = IF temp = "rm_rejected" THEN "temp_rm"
                            ELSE IF done THEN "none" ELSE "download_extract",
                  !.probeError = in.probeFails,
                  !.downloads = 1,
                  !.extractions = IF made THEN 1 ELSE 0,
                  !.removed = removed,
                  !.cleanupError = extracted /\ removed # OldVersionDirs(present, tag),
                  !.temp = temp,
                  !.lookup = AssetLookup(p),
                  !.broken = (IF extracted THEN @ \ {tag}
                              ELSE IF made THEN @ \cup {tag} ELSE @) \ removed]]
DownloadAndExtractLatestCli(p, dirs, in) ==
  IF OsIdentifier(p.platform) \notin {"win", "osx", "linux"}
  THEN [Failed(p, dirs, in, "unsupported_platform") EXCEPT !.prov.requested = FALSE]
  ELSE IF ArchIdentifier(p.arch) \notin {"x64", "arm64"}
  THEN [Failed(p, dirs, in, "unsupported_architecture") EXCEPT !.prov.requested = FALSE]
  ELSE IF ~in.fetch.ok
  THEN IF Includes403(in.fetch.message) THEN LocalFallback(p, dirs, in)
       ELSE Failed(p, dirs, in, "manifest_fetch")
  ELSE IF in.fetch.assets = "none" THEN Failed(p, dirs, in, "no_assets")
  ELSE IF in.fetch.tag \in dirs /\ ~in.probeFails THEN AlreadyExists(p, dirs, in)
  ELSE IF in.fetch.assets # "match"
       THEN [Failed(p, dirs, in, "asset_not_found") EXCEPT !.prov.probeError = in.probeFails,
                                                           !.prov.lookup = AssetLookup(p)]
  ELSE DownloadAndExtract(p, dirs, in)

MaxProvisionCalls == 2
\* the inputs a call can consume: each is drawn only where the call reads it
CallInputs(f, rd, pf, dl, ex, rm, tr) ==
  [fetch |-> f, readdirFails |-> rd, probeFails |-> pf, download |-> dl, extract |-> ex,
   removed |-> rm, tempRemoved |-> tr]
ProvisionInputs(dirs) ==
  { CallInputs(f, rd, FALSE, "ok", "ok", {}, TRUE) :
      f \in {g \in FetchFailures : Includes403(g.message)}, rd \in BOOLEAN }
  \cup { CallInputs(f, FALSE, FALSE, "ok", "ok", {}, TRUE) :
      f \in {g \in FetchResults : (~g.ok /\ ~Includes403(g.message)) \/ (g.ok /\ g.assets = "none")} }
  \cup UNION { { CallInputs(f, FALSE, FALSE, "ok", "ok", rm, TRUE) : rm \in SUBSET OldVersionDirs(dirs, f.tag) } :
      f \in {g \in FetchResults : g.ok /\ g.assets # "none" /\ g.tag \in dirs} }
  \cup { CallInputs(f, FALSE, f.tag \in dirs, "ok", "ok", {}, TRUE) :
      f \in {g \in FetchResults : g.ok /\ g.assets = "other"} }
  \cup UNION { { CallInputs(f, FALSE, f.tag \in dirs, dl, ex, rm, tr) :
                   dl \in {"ok", "fail"},
                   ex \in {"ok", "mkdir", "decompress"},
                   rm \in SUBSET OldVersionDirs(dirs \cup {f.tag}, f.tag),
                   tr \in BOOLEAN } :
      f \in {g \in FetchResults : g.ok /\ g.assets = "match"} }

InitProvision ==
  /\ MonitorIdle
  /\ cache \in SUBSET DirNames
  /\ \E platform \in Platforms, arch \in Archs :
       prov = [NoProvision EXCEPT !.platform = platform, !.arch = arch]
  /\ pure = NoPure
Provision ==
  /\ prov.calls < MaxProvisionCalls
  /\ \E in \in ProvisionInputs(cache) :
       \E r \in {DownloadAndExtractLatestCli(prov, cache, in)} :
         /\ cache' = r.cache
         /\ prov' = r.prov
  /\ UNCHANGED <<pure, executablePath, timedVars, once, calls>>
SpecProvision == InitProvision /\ [][Provision]_vars

(***************************************************************************)
(* DownloadCli and checkRequirements over the provisioning above           *)
(***************************************************************************)
ExecutableNames == {"LynxHardwareCLI", "LynxHardwareCLI.exe"}
\* os.platform() === 'win32' ? `${cliName}.exe` : cliName
ExecutableName(platform) == IF platform = "win32" THEN "LynxHardwareCLI.exe" ELSE "LynxHardwareCLI"
\* (variant: DownloadCli without the check of the executable)
ExecutableNotChecked(platform, files) == TRUE
\* await fsPromises.access(executablePath, F_OK), files being those of the returned directory
ExecutableFound(platform, files) == ExecutableName(platform) \in files

NoRequirements ==
  [fn |-> "checkRequirements", calls |-> 0, dotnet |-> TRUE, files |-> {}, state |-> "none",
   error |-> "none", exeDir |-> NoDir]
InitRequirements ==
  /\ MonitorIdle
  /\ cache \in SUBSET {V1_2_0, V1_9_0}
  /\ \E platform \in {"win32", "linux"} : prov = [NoProvision EXCEPT !.platform = platform]
  /\ pure = NoRequirements
\* (variant: the path assigned before provisioning has returned)
CheckRequirementsCallAssigningFirst ==
  /\ pure.calls < MaxProvisionCalls
  /\ \E dotnet \in BOOLEAN :
       IF ~dotnet
       THEN /\ pure' = [pure EXCEPT !.calls = @ + 1, !.dotnet = FALSE, !.files = {},
                                    !.state = "rejected", !.error = "dotnet_not_found"]
            /\ UNCHANGED <<cache, prov, executablePath>>
       ELSE \E in \in ProvisionInputs(cache) :
              \E r \in {DownloadAndExtractLatestCli(prov, cache, in)} :
                /\ cache' = r.cache
                /\ prov' = r.prov
                /\ IF r.prov.outcome # "returned"
                   THEN /\ executablePath' = "cli"
                        /\ pure' = [pure EXCEPT !.calls = @ + 1, !.dotnet = TRUE, !.files = {},
                                                !.state = "rejected", !.error = r.prov.error]
                   ELSE \E files \in SUBSET ExecutableNames :
                          IF ExecutableFound(prov.platform, files)
                          THEN /\ executablePath' = "cli"
                               /\ pure' = [pure EXCEPT !.calls = @ + 1, !.dotnet = TRUE, !.files = files,
                                                       !.state = "resolved", !.error = "none",
                                                       !.exeDir = r.prov.path]
                          ELSE /\ executablePath' = executablePath
                               /\ pure' = [pure EXCEPT !.calls = @ + 1, !.dotnet = TRUE, !.files = files,
                                                       !.state = "rejected",
                                                       !.error = "executable_not_found"]
  /\ UNCHANGED <<timedVars, once, calls>>
\* one call of checkRequirements(targetDir), DownloadCli included
CheckRequirementsCall ==
  /\ pure.calls < MaxProvisionCalls
  /\ \E dotnet \in BOOLEAN :
       IF ~dotnet
       THEN /\ pure' = [pure EXCEPT !.calls = @ + 1, !.dotnet = FALSE, !.files = {},
                                    !.state = "rejected", !.error = "dotnet_not_found"]
            /\ UNCHANGED <<cache, prov, executablePath>>
       ELSE \E in \in ProvisionInputs(cache) :
              \E r \in {DownloadAndExtractLatestCli(prov, cache, in)} :
                /\ cache' = r.cache
                /\ prov' = r.prov
                /\ IF r.prov.outcome # "returned"
                   THEN /\ executablePath' = executablePath
                        /\ pure' = [pure EXCEPT !.calls = @ + 1, !.dotnet = TRUE, !.files = {},
                                                !.state = "rejected", !.error = r.prov.error]
                   ELSE \E files \in SUBSET ExecutableNames :
                          IF ExecutableFound(prov.platform, files)
                          THEN /\ executablePath' = "cli"
                               /\ pure' = [pure EXCEPT !.calls = @ + 1, !.dotnet = TRUE, !.files = files,
                                                       !.state = "resolved", !.error = "none",
                                                       !.exeDir = r.prov.path]
                          ELSE /\ executablePath' = executablePath
                               /\ pure' = [pure EXCEPT !.calls = @ + 1, !.dotnet = TRUE, !.files = files,
                                                       !.state = "rejected",
                                                       !.error = "executable_not_found"]
  /\ UNCHANGED <<timedVars, once, calls>>
SpecRequirements == InitRequirements /\ [][CheckRequirementsCall]_vars

(***************************************************************************)
(* checkRequirements, getDataOnce and startTimed called in any order on a  *)
(* new monitor                                                             *)
(***************************************************************************)
NextGuard ==
  \/ CheckRequirementsCall
  \/ GetDataOnce(NoComponents, PlainReport)
  \/ \E names \in TimedStreams : StartTimed(NoComponents, names)

\* a new monitor on an empty base directory
InitGuard ==
  /\ MonitorIdle
  /\ cache = {}
  /\ prov = NoProvision
  /\ pure = NoRequirements

SpecGuard == InitGuard /\ [][NextGuard]_vars

(***************************************************************************)
(* downloadFile (src/unnamed/part_003)                                     *)
(***************************************************************************)
\* what the server answers to one request: a status, and whether a Location
\* header came with it; "error" is the request's 'error' event
Response(status, location) == [status |-> status, location |-> location]
FollowedRedirects == {Response(st, TRUE) : st \in {"301", "302", "307"}}
LastResponses ==
  {Response("200", FALSE), Response("404", FALSE), Response("302", FALSE), Response("error", FALSE)}
MaxRedirectRun == 7
\* the answers the successive requests of one download get: a run of redirects
\* with a target, then one last answer
ResponseChains ==
  {run \o <<last>> : run \in UNION {[1..k -> FollowedRedirects] : k \in 0..MaxRedirectRun},
                     last \in LastResponses}

RedirectLimit == 5
\* (variant: the limit counted one hop early)
TooManyRedirectsFromLimit(redirectCount) == redirectCount >= RedirectLimit
\* redirectCount > 5
TooManyRedirects(redirectCount) == redirectCount > RedirectLimit
IsRedirect(response) == response.status \in {"301", "302", "307"}

InitDownload ==
  /\ MonitorIdle
  /\ cache = {}
  /\ prov = NoProvision
  /\ \E chain \in ResponseChains :
       pure = [fn |-> "downloadFile", chain |-> chain, redirectCount |-> 0, requests |-> 0,
               state |-> "pending", error |-> "none"]
\* one invocation of downloadFile(url, outputPath, redirectCount), up to its
\* settling or its recursive call
DownloadFile ==
  /\ pure.state = "pending"
  /\ IF TooManyRedirects(pure.redirectCount)
     THEN pure' = [pure EXCEPT !.state = "rejected", !.error = "Too many redirects"]
     ELSE \E response \in {pure.chain[pure.requests + 1]} :
            IF response.status = "error"
            THEN pure' = [pure EXCEPT !.requests = @ + 1, !.state = "rejected", !.error = "request error"]
            ELSE IF IsRedirect(response)
            THEN IF ~response.location
                 THEN pure' = [pure EXCEPT !.requests = @ + 1, !.state = "rejected",
                                           !.error = "Redirect with no location header"]
                 ELSE pure' = [pure EXCEPT !.requests = @ + 1, !.redirectCount = @ + 1]
            ELSE IF response.status # "200"
            THEN pure' = [pure EXCEPT !.requests = @ + 1, !.state = "rejected",
                                      !.error = "Failed to download file"]
            ELSE pure' = [pure EXCEPT !.requests = @ + 1, !.state = "resolved"]
  /\ UNCHANGED <<cache, prov, executablePath, timedVars, once, calls>>
SpecDownload == InitDownload /\ [][DownloadFile]_vars

(***************************************************************************)
(* formatSeconds                                                           *)
(***************************************************************************)
\* `${value}d` etc.: the digits of value followed by the unit letter
UnitPart(value, unit) == NumberToString(value) \o <<unit>>
\* parts.join(', ')
RECURSIVE JoinCommaSpace(_)
JoinCommaSpace(parts) ==
  IF parts = <<>> THEN <<>>
  ELSE IF Len(parts) = 1 THEN parts[1]
  ELSE parts[1] \o <<",", " ">> \o JoinCommaSpace(Tail(parts))
\* (variant: once a unit has been pushed, the units after it are pushed even when zero)
PushedAfterFirst(value, parts) == value > 0 \/ Len(parts) > 0
\* if (days > 0) ..., if (hours > 0) ..., if (minutes > 0) ...
Pushed(value, parts) == value > 0
PushIf(parts, show, value, unit) == IF show THEN Append(parts, UnitPart(value, unit)) ELSE parts
FormatSeconds(totalSeconds) ==
  LET days == totalSeconds \div (3600 * 24)
      t1 == totalSeconds % (3600 * 24)
      hours == t1 \div 3600
      t2 == t1 % 3600
      minutes == t2 \div 60
      seconds == t2 % 60
      p1 == PushIf(<<>>, Pushed(days, <<>>), days, "d")
      p2 == PushIf(p1, Pushed(hours, p1), hours, "h")
      p3 == PushIf(p2, Pushed(minutes, p2), minutes, "m")
      p4 == PushIf(p3, seconds > 0 \/ Len(p3) = 0, seconds, "s")
  IN JoinCommaSpace(p4)

MaxUnitSample == 3
UnitSamples == 0..MaxUnitSample \cup {59, 60}
\* whole numbers of seconds: d days + h hours + m minutes + s seconds, carries included
SecondsSamples ==
  {d * 86400 + h * 3600 + m * 60 + sec : d \in UnitSamples, h \in UnitSamples, m \in UnitSamples,
                                          sec \in UnitSamples}
InitFormat ==
  /\ MonitorIdle
  /\ cache = {}
  /\ prov = NoProvision
  /\ \E n \in SecondsSamples :
       pure = [fn |-> "formatSeconds", totalSeconds |-> n, done |-> FALSE, result |-> <<>>]
CallFormatSeconds ==
  /\ ~pure.done
  /\ pure' = [pure EXCEPT !.done = TRUE, !.result = FormatSeconds(pure.totalSeconds)]
  /\ UNCHANGED <<cache, prov, executablePath, timedVars, once, calls>>
SpecFormat == InitFormat /\ [][CallFormatSeconds]_vars

(***************************************************************************)
(* buildArgs                                                               *)
(***************************************************************************)
\* the intervalMs argument: undefined, or a number of milliseconds
NoInterval == [given |-> FALSE, ms |-> 0]
Interval(n) == [given |-> TRUE, ms |-> n]

\* Array.prototype.join(','): the tags with a comma unit between them
RECURSIVE JoinComma(_)
JoinComma(tags) ==
  IF Len(tags) = 0 THEN <<>>
  ELSE IF Len(tags) = 1 THEN <<tags[1]>>
  ELSE <<tags[1], ",">> \o JoinComma(Tail(tags))

\* (variant: the requested components joined without removing 'uptime')
BuildArgsUnfiltered(mode, intervalMs, c) ==
  LET args == <<<<"--mode">>, <<mode>>>>
      a1 == IF mode = "timed" /\ intervalMs.given
            THEN args \o <<<<"--interval">>, NumberToString(intervalMs.ms)>>
            ELSE args
  IN IF c.given /\ Len(c.tags) > 0
     THEN a1 \o <<<<"--components">>, JoinComma(c.tags)>>
     ELSE a1
\* buildArgs(mode, intervalMs, components): each argument is a sequence of units
BuildArgs(mode, intervalMs, c) ==
  LET args == <<<<"--mode">>, <<mode>>>>
      cliComponents == CliComponents(c)
      a1 == IF mode = "timed" /\ intervalMs.given
            THEN args \o <<<<"--interval">>, NumberToString(intervalMs.ms)>>
            ELSE args
  IN IF c.given /\ Len(cliComponents) > 0
     THEN a1 \o <<<<"--components">>, JoinComma(cliComponents)>>
     ELSE a1

MaxTags == 3
Tags == {"cpu", "gpu", "uptime"}
Intervals == {NoInterval, Interval(0), Interval(1000)}
Selectors == {NoComponents} \cup {Components(t) : t \in UNION {[1..k -> Tags] : k \in 0..MaxTags}}

InitArgs ==
  /\ MonitorIdle
  /\ cache = {}
  /\ prov = NoProvision
  /\ \E mode \in {"once", "timed"}, intervalMs \in Intervals, c \in Selectors :
       pure = [fn |-> "buildArgs", mode |-> mode, intervalMs |-> intervalMs, components |-> c,
               done |-> FALSE, result |-> <<>>]

CallBuildArgs ==
  /\ pure.fn = "buildArgs" /\ ~pure.done
  /\ pure' = [pure EXCEPT !.done = TRUE,
                          !.result = BuildArgs(pure.mode, pure.intervalMs, pure.components)]
  /\ UNCHANGED <<executablePath, timedVars, once, calls, cache, prov>>

SpecArgs == InitArgs /\ [][CallBuildArgs]_vars

(***************************************************************************)
(* Both modes under every kind of selector                                 *)
(***************************************************************************)
SelectorChoices ==
  {NoComponents, Components(<<>>), Components(<<"cpu">>), Components(<<"cpu", "uptime">>),
   Components(<<"uptime">>)}
SelectorStreams == { <<"cpureport", "crlf">>, <<"report", "crlf">> }

InitSelectors ==
  /\ executablePath = "cli"
  /\ activeProcess = 1
  /\ buffer = <<>>
  /\ initialMessageSkipped = FALSE
  /\ events = <<>>
  /\ dropped = 0
  /\ \E c \in SelectorChoices, names \in SelectorStreams : procs = <<NewProc(c, names)>>
  /\ once = OnceIdle
  /\ calls = 0
  /\ ToolIdle

NextSelectors ==
  \/ StdoutData(1, NextPieceLength(procs[1].pieces, procs[1].delivered))
  \/ \E c \in SelectorChoices, text \in {CpuReport, PlainReport} : GetDataOnce(c, text)
  \/ OnceStdout(Len(once.text))
  \/ OnceClose("0")

SpecSelectors == InitSelectors /\ [][NextSelectors]_vars

(***************************************************************************)
(* Properties of the framer (SpecFramer: one session, process 1)           *)
(***************************************************************************)
ReportPieces == {"report", "bracereport"}
Session == procs[1]
FullyDelivered == Session.delivered = Len(Session.text)
IsData(e) == e.kind = "data"
DataEvents == SelectSeq(events, IsData)

\* 1-based position in the stream of the first unit of piece i
RECURSIVE PieceStart(_, _)
PieceStart(names, i) == IF i = 1 THEN 1 ELSE PieceStart(names, i - 1) + Len(Piece(names[i - 1]))
PieceEnd(names, i) == PieceStart(names, i) + Len(Piece(names[i])) - 1

\* the stream text an event was framed from
SpanOf(e) == SubSeq(procs[e.proc].text, e.from, e.to)

\* C1: the 'data' events are, in stream order and without repetition, complete JSON
\* objects of the stream: the buffer is the still unconsumed tail of the delivered
\* text, every emitted report is the parse of a span of delivered text that is a
\* complete object, and each span lies after the span of the event before it.
C1_DataInStreamOrder ==
  /\ buffer = SubSeq(Session.text, dropped + 1, Session.delivered)
  /\ \A i \in 1..Len(events) : IsData(events[i]) =>
       /\ 1 <= events[i].from /\ events[i].from <= events[i].to
       /\ events[i].to <= Session.delivered
       /\ JSONParse(SpanOf(events[i])).ok
       /\ JSONParse(SpanOf(events[i])).val.type = "object"
       /\ events[i].report = TimedFinalReport(JSONParse(SpanOf(events[i])).val, Session.components)
  /\ \A i \in 1..Len(events) : \A j \in 1..Len(events) :
       (i < j /\ IsData(events[i]) /\ IsData(events[j])) => events[i].to < events[j].from

\* two reports emitted, the second framed from text delivered after the first
C1_Witness ==
  /\ Len(DataEvents) >= 2
  /\ DataEvents[1].to < DataEvents[2].from
  /\ FullyDelivered

\* C2 (as claimed): for a stream of report objects each followed by a line
\* terminator (LF or CRLF), every report of the stream has been emitted as one
\* 'data' event once the whole stream has been delivered.
LineTerminated(names) ==
  /\ Len(names) >= 2
  /\ \A i \in 1..Len(names) :
       IF i % 2 = 1 THEN names[i] \in ReportPieces ELSE names[i] \in {"lf", "crlf"}
  /\ Len(names) % 2 = 0
C2_ZeroDataLoss ==
  (FullyDelivered /\ LineTerminated(Session.pieces)) =>
     /\ Len(DataEvents) = Len(Session.pieces) \div 2
     /\ Len(events) = Len(DataEvents)

\* C3 (as claimed): the events produced for a stream text do not depend on the
\* chunk boundaries: once the stream is delivered they are the events of the
\* same text delivered to a fresh session as a single chunk.
FreshSession ==
  [buffer |-> <<>>, initialMessageSkipped |-> FALSE, events |-> <<>>, dropped |-> 0, stop |-> FALSE]
C3_ChunkingInvariance ==
  (FullyDelivered /\ Len(Session.text) > 0) =>
     events = OnStdoutData(FreshSession, Session.text, 1, Session.components).events

\* C4 (as claimed): a valid report delivered to a fresh session as one chunk
\* yields exactly one report during that chunk.
C4_SingleChunkOriginal ==
  (Session.chunks = 1 /\ FullyDelivered /\ Len(Session.pieces) = 1
     /\ Session.pieces[1] \in ReportPieces) =>
     (Len(events) = 1 /\ IsData(events[1]))

\* C5: braces inside a string value, and a quote that is backslash-escaped, do
\* not move the boundary: a buffer that begins with the object whose string holds
\* } \" { is framed at that object's closing brace when the object is complete and
\* is incomplete before that, and every event framed from the start of such an
\* object spans exactly the object and is a report.
C5_BracesInStrings ==
  /\ \A i \in 1..Len(Session.pieces) :
       (Session.pieces[i] = "bracereport" /\ PieceStart(Session.pieces, i) = dropped + 1
          /\ Len(buffer) > 0) =>
         IF Len(buffer) >= Len(BraceStringReport)
         THEN JsonEndScan(buffer) = [kind |-> "end", jsonEndIndex |-> Len(BraceStringReport) - 1]
         ELSE JsonEndScan(buffer).kind = "incomplete"
  /\ \A n \in 1..Len(events) : \A i \in 1..Len(Session.pieces) :
       (Session.pieces[i] = "bracereport" /\ events[n].from = PieceStart(Session.pieces, i)) =>
         (events[n].to = PieceEnd(Session.pieces, i) /\ IsData(events[n]))

\* a report with braces in its string was emitted after another object
C5_Witness ==
  \E n \in 1..Len(events) :
    /\ events[n].from > 1
    /\ IsData(events[n])
    /\ SpanOf(events[n]) = BraceStringReport

\* C6 (as claimed): the stream {...}garbage{...}, with no line terminator, yields
\* two reports in stream order.
C6_GarbageOriginal ==
  (FullyDelivered /\ Len(Session.pieces) = 3 /\ Session.pieces[1] \in ReportPieces
     /\ Session.pieces[2] = "garbage" /\ Session.pieces[3] \in ReportPieces) =>
     (Len(events) = 2 /\ IsData(events[1]) /\ IsData(events[2]))

\* C7 (as claimed): a stream of reports and line terminators with one extra
\* closing brace after its first report makes the framer emit a json_parse_error
\* event, and every report of the stream is emitted.
OneExtraBrace(names) ==
  /\ Len(names) >= 3
  /\ names[1] \in ReportPieces /\ names[2] = "rb" /\ names[3] = "crlf"
  /\ \A i \in 4..Len(names) : names[i] \in ReportPieces \cup {"crlf"}
C7_ExtraBraceReported ==
  (FullyDelivered /\ OneExtraBrace(Session.pieces)) =>
     /\ \E n \in 1..Len(events) : events[n].kind = "error" /\ events[n].type = "json_parse_error"
     /\ Len(DataEvents) = Cardinality({i \in 1..Len(Session.pieces) : Session.pieces[i] \in ReportPieces})

(***************************************************************************)
(* Properties of the timed session lifecycle (Spec)                        *)
(***************************************************************************)
\* C8: a startTimed call made while a session is active appends the 'already
\* active' error event in the same step and changes nothing else, so it spawns
\* nothing; the only other call of an active session, stopTimed, sends a
\* termination request and emits nothing.  A call is a step that counts in calls.
RejectedStartStep ==
  /\ events' = Append(events, AlreadyActiveError)
  /\ UNCHANGED <<toolVars, executablePath, activeProcess, buffer, initialMessageSkipped, dropped, procs, once>>
StopStep ==
  /\ procs' = [procs EXCEPT ![activeProcess].kills = @ + 1,
                            ![activeProcess].killed = @ \/ procs[activeProcess].status = "running"]
  /\ UNCHANGED <<toolVars, executablePath, activeProcess, buffer, initialMessageSkipped, dropped, events, once>>
UnexpectedExitError(p) == ErrorEvent("process_error", <<>>, p, 0, 0)
UnexpectedExitCount(p) == Cardinality({n \in 1..Len(events) : events[n] = UnexpectedExitError(p)})

\* C11 (as claimed): a termination request is only ever sent to the subprocess of
\* the active session and its step emits nothing (stopTimed without a session
\* sends none), and the close of a subprocess that stopTimed was called on never
\* produces a process_error event, whatever its exit code.
C11_StopNeverReported ==
  /\ [](\A p \in 1..Len(procs) : procs[p].kills > 0 => UnexpectedExitCount(p) = 0)
  /\ [][\A p \in 1..Len(procs) :
          (Len(procs') = Len(procs) /\ procs'[p].kills > procs[p].kills) =>
             (activeProcess = p /\ events' = events /\ activeProcess' = activeProcess
                /\ buffer' = buffer /\ initialMessageSkipped' = initialMessageSkipped)]_vars

\* C12 (as claimed): a timed subprocess that was spawned, was never sent a
\* termination request and closed with a non-zero exit code has exactly one
\* process_error event emitted for its exit, and once the last subprocess has
\* closed the monitor is idle.
C12_UnexpectedExitReportedOnce ==
  /\ \A p \in 1..Len(procs) :
       (procs[p].status = "closed" /\ ~procs[p].errored /\ procs[p].kills = 0
          /\ procs[p].exitCode # "0") => UnexpectedExitCount(p) = 1
  /\ (Len(procs) > 0 /\ procs[Len(procs)].status = "closed") =>
       (activeProcess = 0 /\ buffer = <<>> /\ ~initialMessageSkipped)

(***************************************************************************)
(* Properties of the selector (SpecSelectors)                              *)
(***************************************************************************)
HasProp(v, k) == v.type = "object" /\ k \in DOMAIN v.props
HasUptimeFields(v) == HasProp(v, <<"Uptime">>) /\ HasProp(v, <<"ElapsedTime">>)
NoUptimeField(v) == ~HasProp(v, <<"Uptime">>) /\ ~HasProp(v, <<"ElapsedTime">>)
\* the selector is undefined, empty, or contains 'uptime'
WantsUptime(c) == ~c.given \/ c.tags = <<>> \/ (\E i \in 1..Len(c.tags) : c.tags[i] = "uptime")
\* what a report must look like under selector c when the subprocess printed text
AugmentedAsSelected(report, c, text) ==
  /\ IF WantsUptime(c) THEN HasUptimeFields(report) ELSE NoUptimeField(report)
  /\ c = Components(<<"cpu">>) => report = JSONParse(text).val
  /\ c = Components(<<"cpu", "uptime">>) =>
       /\ GetProp(report, <<"CPU">>) = GetProp(JSONParse(text).val, <<"CPU">>)
       /\ DOMAIN report.props = (DOMAIN JSONParse(text).val.props) \cup {<<"Uptime">>, <<"ElapsedTime">>}

\* C13: in both modes a delivered report carries Uptime and ElapsedTime exactly
\* when the selector is undefined, empty or contains 'uptime'; under ['cpu'] it
\* is the subprocess's object unchanged, and under ['cpu','uptime'] it is the
\* subprocess's object (its CPU data included) plus the two fields.
C13_UptimeBySelector ==
  /\ \A n \in 1..Len(events) : IsData(events[n]) =>
       AugmentedAsSelected(events[n].report, Session.components, SpanOf(events[n]))
  /\ once.outcome.state = "resolved" =>
       AugmentedAsSelected(once.outcome.value, once.components, once.output)

\* both modes delivered a report with CPU data under ['cpu','uptime']
C13_Witness ==
  /\ Session.components = Components(<<"cpu", "uptime">>)
  /\ Len(events) = 1 /\ IsData(events[1]) /\ SpanOf(events[1]) = CpuReport
  /\ HasUptimeFields(events[1].report)
  /\ once.components = Components(<<"cpu", "uptime">>)
  /\ once.outcome.state = "resolved" /\ once.output = CpuReport
  /\ HasUptimeFields(once.outcome.value)

(***************************************************************************)
(* Properties of buildArgs (SpecArgs)                                      *)
(***************************************************************************)
ArgPositions(a) == {i \in 1..Len(pure.result) : pure.result[i] = a}
NonUptimeTags(c) == IF c.given THEN SelectSeq(c.tags, LAMBDA t : t # "uptime") ELSE <<>>
WithoutCommas(arg) == SelectSeq(arg, LAMBDA u : u # ",")

\* C14: the argument list never mentions 'uptime'; '--components' occurs exactly
\* when a tag other than 'uptime' was requested, once, followed by those tags in
\* request order with one comma between neighbours; '--interval' occurs only in
\* timed mode.
C14_ArgsWithoutUptime ==
  (pure.fn = "buildArgs" /\ pure.done) =>
    /\ \A i \in 1..Len(pure.result) : \A j \in 1..Len(pure.result[i]) : pure.result[i][j] # "uptime"
    /\ (ArgPositions(<<"--components">>) # {}) <=> (Len(NonUptimeTags(pure.components)) > 0)
    /\ \A i \in ArgPositions(<<"--components">>) :
         /\ ArgPositions(<<"--components">>) = {i}
         /\ i + 1 = Len(pure.result)
         /\ WithoutCommas(pure.result[i + 1]) = NonUptimeTags(pure.components)
         /\ Len(pure.result[i + 1]) = 2 * Len(NonUptimeTags(pure.components)) - 1
         /\ \A j \in 1..Len(pure.result[i + 1]) : (pure.result[i + 1][j] = ",") <=> (j % 2 = 0)
    /\ (ArgPositions(<<"--interval">>) # {}) => pure.mode = "timed"
    /\ pure.result[1] = <<"--mode">> /\ pure.result[2] = <<pure.mode>>

\* timed mode asked for gpu, uptime, cpu: --interval 1000 --components gpu,cpu
C14_Witness ==
  /\ pure.fn = "buildArgs" /\ pure.done
  /\ pure.mode = "timed" /\ pure.components = Components(<<"gpu", "uptime", "cpu">>)
  /\ pure.result = <<<<"--mode">>, <<"timed">>, <<"--interval">>, <<"1", "0", "0", "0">>,
                     <<"--components">>, <<"gpu", ",", "cpu">>>>

(***************************************************************************)
(* Properties of getDataOnce (SpecOnce)                                    *)
(***************************************************************************)
\* C9: once the timer has expired before any close or error was handled, the
\* promise is rejected with timeout_error, the subprocess was sent exactly one
\* termination request, and every later close or error event is ignored: none of
\* them settles the promise again or sends another termination request.
C9_TimeoutKillsOnce ==
  once.first = "timeout" =>
    /\ once.outcome.state = "rejected" /\ once.outcome.type = "timeout_error"
    /\ once.kills = 1
    /\ once.settles = 1
    /\ once.timer = "fired"

\* the subprocess closed, with an 'error' before it, after the timer had expired
C9_Witness == once.first = "timeout" /\ once.proc = "closed" /\ once.errored

\* what the first handled event of a call that did not time out must settle it with
ParseableAsObject(output) == JSONParse(output).ok /\ JSONParse(output).val.type = "object"
OutcomeOfFirstEvent(parseable) ==
  /\ once.first = "error" =>
       (once.outcome.state = "rejected" /\ once.outcome.type = "spawn_error"
          /\ once.outcome.rawError = "err")
  /\ once.first = "close_nonzero" =>
       (once.outcome.state = "rejected" /\ once.outcome.type = "process_error"
          /\ once.outcome.stderrData = once.errorOutput)
  /\ (once.first = "close_zero" /\ ~JSONParse(once.output).ok) =>
       (once.outcome.state = "rejected" /\ once.outcome.type = "json_parse_error"
          /\ once.outcome.stderrData = once.output)
  /\ (once.first = "close_zero" /\ parseable) =>
       (once.outcome.state = "resolved"
          /\ (Truthy(GetProp(JSONParse(once.output).val, TimestampKey)) =>
                GetProp(once.outcome.value, TimestampKey) = GetProp(JSONParse(once.output).val, TimestampKey)))

\* C10 (as claimed): exit code 0 and parseable stdout resolves with the report.
C10_OutcomeOriginal == OutcomeOfFirstEvent(JSONParse(once.output).ok)

\* C10 (amended): a call that does not time out is settled by its first handled
\* event and by nothing after it: spawn failure gives spawn_error with the causal
\* error, a non-zero exit process_error with the captured stderr, exit code 0 with
\* stdout that does not parse json_parse_error with the raw output, and exit code
\* 0 with stdout that parses to a JSON object resolves with the report.
C10_OutcomeByFirstEvent == OutcomeOfFirstEvent(ParseableAsObject(once.output))

\* the call was settled by an 'error', and the subprocess closed afterwards
C10_Witness ==
  /\ once.first = "error" /\ once.proc = "closed" /\ once.settles = 2
  /\ once.outcome.type = "spawn_error"


(***************************************************************************)
(* Properties of downloadAndExtractLatestCli                               *)
(***************************************************************************)
\* numeric-aware version order: a differing prefix decides, else the first
\* differing number decides by value, else the shorter name comes first
NumericAwareLE(a, b) ==
  IF a.prefix # b.prefix THEN PrefixRank(a.prefix) < PrefixRank(b.prefix)
  ELSE LET differ == {i \in 1..Min(Len(a.nums), Len(b.nums)) : a.nums[i] # b.nums[i]}
       IN IF differ = {} THEN Len(a.nums) <= Len(b.nums)
          ELSE LET i == CHOOSE k \in differ : \A l \in differ : k <= l
               IN a.nums[i] < b.nums[i]

\* C15: the rate-limit fallback returns a cached directory that is the maximum
\* of the cached directories under numeric-aware version ordering; from
\* v1.2.0, v1.10.0 and v1.9.0 it returns v1.10.0.
C15_FallbackReturnsHighest ==
  prov.route = "fallback" =>
    /\ prov.path \in prov.before
    /\ \A e \in prov.before : NumericAwareLE(e, prov.path)
    /\ (prov.before = {V1_2_0, V1_10_0, V1_9_0} => prov.path = V1_10_0)
C15_Witness ==
  /\ prov.route = "fallback"
  /\ prov.before = {V1_2_0, V1_10_0, V1_9_0}
  /\ prov.path = V1_10_0

\* the manifest request was answered with HTTP status 403
AnsweredWith403(f) == f.kind = "http" /\ f.message[2] = "403"
CacheUntouched ==
  /\ cache = prov.before
  /\ prov.downloads = 0 /\ prov.extractions = 0 /\ prov.removed = {}

\* C16: a manifest fetch that fails with HTTP 403 ends in the latest local
\* version or, with no cached directory, in the no-fallback error; a fetch that
\* fails for any other reason ends in the manifest-fetch error; neither
\* downloads, extracts or deletes anything.
C16_FetchFailureHandling ==
  (prov.calls > 0 /\ ~prov.fetch.ok) =>
    /\ CacheUntouched
    /\ AnsweredWith403(prov.fetch) =>
         \/ prov.outcome = "returned" /\ prov.route = "fallback" /\ prov.before # {}
         \/ prov.outcome = "failed" /\ prov.error = "no_fallback"
    /\ ~AnsweredWith403(prov.fetch) =>
         prov.outcome = "failed" /\ prov.error = "manifest_fetch"

\* the failure message contains the characters 403
Mentions403(f) == \E i \in 1..Len(f.message) : f.message[i] = "403"

C18_SecondCallDownloadsNothing ==
  [][(/\ prov'.calls = prov.calls + 1
      /\ prov.outcome = "returned" /\ prov.route \in {"exists", "fresh"}
      /\ prov'.fetch = prov.fetch) =>
        (/\ prov'.downloads = 0 /\ prov'.extractions = 0
         /\ prov'.outcome = "returned" /\ prov'.path = prov.path)]_vars

\* C19: every returned path is a version directory whose extraction completed.
C19_ReturnedPathsComplete ==
  prov.outcome = "returned" => prov.path \in cache /\ prov.path \notin prov.broken

\* C20: after a call that succeeds against a fetched manifest and whose cleanup
\* met no filesystem error, the manifest's version is the only cached directory.
C20_OnlyCurrentVersionRemains ==
  (prov.outcome = "returned" /\ prov.route \in {"exists", "fresh"} /\ ~prov.cleanupError) =>
    cache = {prov.path}

\* C21: a call whose cleanup met an error fails for no reason of the cleanup: it
\* returns the manifest version's path (it can fail only because removing the
\* temporary directory rejected), and no call removes the version it keeps.
C21_CleanupNeverFailsProvisioning ==
  /\ prov.cleanupError =>
       \/ prov.outcome = "returned" /\ prov.path = prov.fetch.tag
       \/ prov.outcome = "failed" /\ prov.error = "temp_rm"
  /\ prov.fetch.ok => (prov.fetch.tag \notin prov.removed /\ prov.path \notin prov.removed)
  /\ prov.route \in {"exists", "fresh"} => prov.path \in cache
C21_Witness ==
  /\ prov.cleanupError
  /\ prov.outcome = "returned"
  /\ prov.route = "exists"
  /\ prov.path = prov.fetch.tag

RedirectsBeforeLast == Len(pure.chain) - 1
LastResponse == pure.chain[Len(pure.chain)]

\* C23: a download answered by k redirects (301, 302 or 307 with a target) and
\* then a 200 succeeds exactly when k <= 5; with more than 5 redirects it fails
\* with the too-many-redirects error; a redirect without a Location header fails
\* with the missing-location error at that hop; a failing download issues no
\* request beyond the failing hop.
C23_RedirectLimit ==
  /\ pure.requests <= 6
  /\ pure.state # "pending" =>
       /\ RedirectsBeforeLast > 5 =>
            (pure.state = "rejected" /\ pure.error = "Too many redirects" /\ pure.requests = 6)
       /\ (RedirectsBeforeLast <= 5 /\ LastResponse.status = "200") =>
            (pure.state = "resolved" /\ pure.requests = RedirectsBeforeLast + 1)
       /\ (RedirectsBeforeLast <= 5 /\ LastResponse = Response("302", FALSE)) =>
            (pure.state = "rejected" /\ pure.error = "Redirect with no location header"
               /\ pure.requests = RedirectsBeforeLast + 1)
       /\ pure.state = "resolved" => (RedirectsBeforeLast <= 5 /\ LastResponse.status = "200")
       /\ pure.state = "rejected" => pure.requests <= RedirectsBeforeLast + 1
C23_Witness ==
  /\ pure.state = "resolved"
  /\ RedirectsBeforeLast = 5
  /\ pure.requests = 6

\* C24: on a platform other than win32, darwin or linux a provisioning call
\* fails with the unsupported-platform error, and on an architecture other than
\* x64 or arm64 with the unsupported-architecture error; such a call issues no
\* manifest request, tries no fallback and looks up no asset name.
C24_UnsupportedFailsFast ==
  prov.calls > 0 =>
    /\ prov.platform \notin {"win32", "darwin", "linux"} =>
         (prov.outcome = "failed" /\ prov.error = "unsupported_platform"
            /\ ~prov.requested /\ prov.route # "fallback" /\ prov.lookup = NoLookup)
    /\ (prov.platform \in {"win32", "darwin", "linux"} /\ prov.arch \notin {"x64", "arm64"}) =>
         (prov.outcome = "failed" /\ prov.error = "unsupported_architecture"
            /\ ~prov.requested /\ prov.route # "fallback" /\ prov.lookup = NoLookup)

(***************************************************************************)
(* Properties of checkRequirements                                         *)
(***************************************************************************)
\* C25: checkRequirements resolves only when provisioning returned a directory
\* (fresh, already provisioned or fallback) that holds the platform's
\* executable, and then the monitor's path points into that directory; a call
\* that rejects, the executable being absent included, leaves the monitor's
\* path as it was.
C25_ExecutableVerified ==
  /\ [](pure.state = "resolved" =>
          /\ prov.outcome = "returned"
          /\ ExecutableName(prov.platform) \in pure.files
          /\ executablePath = "cli" /\ pure.exeDir = prov.path)
  /\ []((pure.state # "none" /\ pure.dotnet /\ prov.outcome = "returned"
           /\ ExecutableName(prov.platform) \notin pure.files) =>
          (pure.state = "rejected" /\ pure.error = "executable_not_found"))
  /\ [][pure'.state = "rejected" =>
          (executablePath' = executablePath /\ pure'.exeDir = pure.exeDir)]_vars
C25_Witness ==
  /\ pure.state = "rejected" /\ pure.error = "executable_not_found"
  /\ prov.route = "fallback"
  /\ prov.platform = "win32" /\ pure.files = {"LynxHardwareCLI"}
  /\ executablePath = ""

(***************************************************************************)
(* Properties of the errors the monitor delivers                           *)
(***************************************************************************)
ErrorKinds == {"spawn_error", "process_error", "json_parse_error", "timeout_error"}

\* C26: every 'error' event the monitor emits, the one for a startTimed call
\* during an active session included, and every getDataOnce rejection carries
\* a kind from ErrorKinds.
C26_EveryErrorHasKind ==
  /\ \A n \in 1..Len(events) : events[n].kind = "error" => events[n].type \in ErrorKinds
  /\ once.outcome.state = "rejected" => once.outcome.type \in ErrorKinds

(***************************************************************************)
(* Properties of the session buffer                                        *)
(***************************************************************************)
\* buf is the beginning of a JSON object whose closing brace has not arrived
IncompleteObjectPrefix(buf) == StartsWithLB(buf) /\ JsonEndScan(buf).kind = "incomplete"

\* C27: after the stdout handler has processed a chunk the session buffer is
\* empty or the strict prefix of one incomplete JSON object.
C27_BufferEmptyOrObjectPrefix ==
  buffer = <<>> \/ IncompleteObjectPrefix(buffer)

\* a complete candidate span is still waiting in buf, after any text before its '{'
CandidateWaiting(buf) ==
  /\ IndexOf(buf, LB) # -1
  /\ JsonEndScan(Substring(buf, IndexOf(buf, LB))).kind = "end"
IsSpanError(e) == e.kind = "error" /\ e.type = "json_parse_error" /\ e.from > 0

\* C28: a candidate span that is not a valid report is reported by exactly one
\* json_parse_error event, and framing goes on in the same callback: when the
\* handler returns, no complete candidate is left waiting in the buffer.
C28_InvalidSpanFramingContinues ==
  /\ \A m, n \in 1..Len(events) :
       (IsSpanError(events[m]) /\ events[n].from = events[m].from) => m = n
  /\ (initialMessageSkipped /\ \E n \in 1..Len(events) : IsSpanError(events[n])) =>
       ~CandidateWaiting(buffer)

(***************************************************************************)
(* Properties of the initial-message skip                                  *)
(***************************************************************************)
DeliveredText == SubSeq(Session.text, 1, Session.delivered)

\* C29: once a line terminator (\r\n or \n) has arrived the noise-skipped flag
\* is set, and a first line that does not begin with '{' has been discarded with
\* its terminator; while none has arrived nothing is emitted, and the flag is
\* set only past the threshold without any '{', nothing being discarded.
C29_LeadingNoiseRule ==
  IF IndexOf(DeliveredText, LF) # -1
  THEN /\ initialMessageSkipped
       /\ ~StartsWithLB(DeliveredText) => dropped >= IndexOf(DeliveredText, LF) + 1
  ELSE /\ events = <<>>
       /\ initialMessageSkipped =>
            /\ StrLength(DeliveredText) > InitialMessageThreshold
            /\ IndexOf(DeliveredText, LB) = -1
            /\ dropped = 0

(***************************************************************************)
(* Properties of formatSeconds                                             *)
(***************************************************************************)
\* the four unit values of n seconds, largest unit first
UnitValues(n) == <<n \div 86400, (n \div 3600) % 24, (n \div 60) % 60, n % 60>>
UnitLetters == <<"d", "h", "m", "s">>
FirstNonZero(v) == IF \E i \in 1..4 : v[i] > 0 THEN CHOOSE i \in 1..4 : v[i] > 0 /\ \A j \in 1..(i - 1) : v[j] = 0
                   ELSE 4
\* the parts for the units at the positions of `shown`, in order
RECURSIVE PartsFrom(_, _, _)
PartsFrom(v, i, shown) ==
  IF i > 4 THEN <<>>
  ELSE (IF i \in shown THEN <<UnitPart(v[i], UnitLetters[i])>> ELSE <<>>) \o PartsFrom(v, i + 1, shown)

\* C30 (as stated): the result shows, joined by ', ', every unit from the first
\* non-zero one onwards, zero-valued or not (the seconds alone when all are zero).
C30_LeadingZerosOnly ==
  pure.done =>
    LET v == UnitValues(pure.totalSeconds)
    IN pure.result = JoinCommaSpace(PartsFrom(v, 1, FirstNonZero(v)..4))
\* C30 (amended): the result shows, in the order d, h, m, s and joined by ', ',
\* exactly the non-zero units (the seconds alone, as 0s, when all are zero); the
\* shown values, with the omitted ones being zero, add up to the input.
C30_NonZeroUnitsOnly ==
  pure.done =>
    LET v == UnitValues(pure.totalSeconds)
        shown == IF \A i \in 1..4 : v[i] = 0 THEN {4} ELSE {i \in 1..4 : v[i] > 0}
    IN /\ pure.result = JoinCommaSpace(PartsFrom(v, 1, shown))
       /\ v[1] * 86400 + v[2] * 3600 + v[3] * 60 + v[4] = pure.totalSeconds
       /\ \A i \in (1..4) \ shown : v[i] = 0
C30_Witness ==
  /\ pure.done
  /\ pure.totalSeconds = 86400 + 3
  /\ pure.result = <<"1", "d", ",", " ", "3", "s">>

\* C31: a call whose existence probe fails for a reason other than absence
\* fails with that probe failure and neither downloads nor extracts.
C31_ProbeFailureReRaised ==
  prov.probeError =>
    /\ prov.outcome = "failed" /\ prov.error = "probe"
    /\ prov.downloads = 0 /\ prov.extractions = 0

\* C32: after a '{' that is never closed (or a '{' followed by an unterminated
\* quote) in the text between reports, every report printed afterwards is
\* emitted or reported as an error once the output was delivered, and the
\* buffer does not hold those reports back.
StrayBraceIndex == CHOOSE i \in 1..Len(Session.pieces) : Session.pieces[i] \in {"lb", "lbquote"}
ReportsAfterStrayBrace ==
  {i \in 1..Len(Session.pieces) : i > StrayBraceIndex /\ Session.pieces[i] \in ReportPieces}
CoveredByEvent(i) ==
  \E n \in 1..Len(events) :
    /\ events[n].from > 0
    /\ events[n].from <= PieceStart(Session.pieces, i)
    /\ events[n].to >= PieceEnd(Session.pieces, i)
C32_RecoversFromUnmatchedBrace ==
  FullyDelivered =>
    /\ \A i \in ReportsAfterStrayBrace : CoveredByEvent(i)
    /\ Len(buffer) < Len(PlainReport)

\* C33: every report handed to the caller, resolved by getDataOnce or emitted as
\* a 'data' event, has a string Timestamp.
HasStringTimestamp(report) == GetProp(report, TimestampKey).type = "string"
C33_DeliveredReportsHaveTimestamp ==
  /\ once.outcome.state = "resolved" => HasStringTimestamp(once.outcome.value)
  /\ \A n \in 1..Len(events) : IsData(events[n]) => HasStringTimestamp(events[n].report)

\* C34: the 'error' or 'close' event of a subprocess that is not the active
\* session's leaves activeProcess, the buffer and the events as they are, at
\* most one timed subprocess is running at any time, and a running subprocess
\* is the one activeProcess refers to.
RunningProcs == {p \in 1..Len(procs) : procs[p].status = "running"}
EndEventStep(p) ==
  /\ Len(procs') = Len(procs)
  /\ \/ procs[p].status # "closed" /\ procs'[p].status = "closed"
     \/ ~procs[p].errored /\ procs'[p].errored
C34_SessionOwnsState ==
  /\ [](Cardinality(RunningProcs) <= 1 /\ \A p \in RunningProcs : activeProcess = p)
  /\ [][\A p \in 1..Len(procs) :
          (EndEventStep(p) /\ activeProcess # 0 /\ activeProcess # p) =>
             (activeProcess' = activeProcess /\ buffer' = buffer /\ events' = events)]_vars

\* C35: from a stopTimed call on a subprocess until that subprocess's 'close'
\* event, every startTimed call emits the 'already active' error and spawns
\* nothing and every stopTimed call sends the subprocess another termination
\* request; a new subprocess is spawned only after that 'close'.
InStopWindow(p) == procs[p].kills > 0 /\ procs[p].status # "closed"
C35_ActiveUntilClose ==
  [][\A p \in 1..Len(procs) :
       (InStopWindow(p) /\ calls' = calls + 1) =>
          \/ RejectedStartStep
          \/ Len(procs') = Len(procs) /\ procs'[p].kills = procs[p].kills + 1]_vars

\* C36: a step of a getDataOnce call (the call, its subprocess's events, its
\* timer) leaves activeProcess, the buffer, the noise flag, the events and the
\* timed subprocesses as they are; a call made with the executable path set
\* spawns whether or not a session is active; the timed session emits exactly
\* the report its own subprocess printed; and each of two overlapping calls
\* resolves with the result of its own subprocess's output.
ResolvedFromOwnOutput(r) ==
  r.outcome.state = "resolved" => r.outcome = OnceResult(SubSeq(r.text, 1, r.delivered), r.components)
SessionEventsOwn ==
  FullyDelivered =>
    events = <<DataEvent(TimedFinalReport(JSONParse(PlainReport).val, Session.components), 1, 1, Len(PlainReport))>>
C36_OnceLeavesSessionAlone ==
  /\ [](ResolvedFromOwnOutput(once) /\ ResolvedFromOwnOutput(once.other) /\ SessionEventsOwn)
  /\ [][once' # once => UNCHANGED timedVars]_vars
  /\ [][(once'.calls = once.calls + 1 /\ executablePath # "") => once'.spawns = once.spawns + 1]_vars

\* two overlapping calls resolved with different reports while the timed
\* session, still active, has emitted its own
C36_Witness ==
  /\ activeProcess = 1 /\ Len(events) = 1
  /\ once.outcome.state = "resolved" /\ once.other.outcome.state = "resolved"
  /\ once.outcome.value # once.other.outcome.value
  /\ once.text # once.other.text

\* C37: the executable path changes only in the step in which a
\* checkRequirements call resolves, and a call that rejects leaves it as it
\* was; while the path is unset a getDataOnce call rejects with spawn_error and
\* a startTimed call emits the spawn_error event, neither spawns and
\* activeProcess stays null; so nothing is ever spawned with the path unset.
C37_SpawnNeedsRequirements ==
  /\ []((Len(procs) > 0 \/ once.spawns > 0 \/ activeProcess # 0) => executablePath # "")
  /\ [][executablePath' # executablePath => (pure'.calls = pure.calls + 1 /\ pure'.state = "resolved")]_vars
  /\ [][(pure'.calls = pure.calls + 1 /\ pure'.state = "rejected") => executablePath' = executablePath]_vars
  /\ [][(once'.calls = once.calls + 1 /\ executablePath = "") =>
          (once'.outcome = Rejected("spawn_error", <<>>, "none") /\ once'.spawns = once.spawns
             /\ once'.proc = "none" /\ activeProcess' = 0 /\ procs' = procs)]_vars
  /\ [][(calls' = calls + 1 /\ executablePath = "") =>
          (events' = Append(events, PathNotSetError) /\ activeProcess' = 0 /\ procs' = procs)]_vars

\* checkRequirements has failed for each reason, and both modes were refused
C37_Witness ==
  /\ executablePath = "" /\ pure.state = "rejected" /\ pure.error = "executable_not_found"
  /\ once.outcome = Rejected("spawn_error", <<>>, "none")
  /\ events = <<PathNotSetError>>
  /\ procs = <<>> /\ once.spawns = 0

\* C38: a call that fails after the manifest was fetched, because no asset
\* matched, the download failed or the extraction did not complete, has removed
\* nothing: every directory cached before the call is still cached.  A call
\* removes directories only on the already-provisioned path or after it
\* extracted the new version completely, and never a directory it did not
\* report as removed.
ExtractionIncomplete == prov.downloads = 1 /\ (prov.extractions = 0 \/ prov.fetch.tag \in prov.broken)
FailedUpgrade ==
  /\ prov.outcome = "failed" /\ prov.fetch.ok
  /\ prov.error = "asset_not_found" \/ ExtractionIncomplete
C38_FailedUpgradeRemovesNothing ==
  /\ [](FailedUpgrade => (prov.removed = {} /\ prov.before \subseteq cache))
  /\ [](prov.removed # {} =>
          \/ prov.route = "exists"
          \/ prov.extractions = 1 /\ prov.fetch.tag \in cache /\ prov.fetch.tag \notin prov.broken)
  /\ [][cache \ cache' \subseteq prov'.removed]_vars

\* an upgrade from a cached older version failed during extraction
C38_Witness ==
  /\ prov.outcome = "failed" /\ prov.error = "download_extract"
  /\ prov.extractions = 1 /\ prov.fetch.tag \in prov.broken
  /\ prov.before # {} /\ prov.fetch.tag \notin prov.before
  /\ prov.before \subseteq cache

\* C39: in a getDataOnce call whose subprocess's 'close' or 'error' event was
\* handled before the timer fired, the timer is cancelled, the subprocess is
\* never sent a termination request and the promise is never rejected with
\* timeout_error.
TerminationHandledFirst == once.first \in {"error", "close_zero", "close_nonzero"}
C39_TimeoutExcludedByTermination ==
  TerminationHandledFirst =>
    /\ once.timer = "cleared"
    /\ once.kills = 0 /\ ~once.processKilled
    /\ once.outcome.state # "pending" /\ once.outcome.type # "timeout_error"

\* a spawn failure was handled, then the subprocess's close, with no timeout
C39_Witness ==
  /\ once.first = "error" /\ once.proc = "closed"
  /\ once.timer = "cleared" /\ once.kills = 0
  /\ once.outcome.type = "spawn_error"

====
